---- MODULE Spec2Model ----
(***************************************************************************)
(* A model of the CBOR codec: the encoder of lib/Encoder.js, the helpers   *)
(* of lib/util.js (Tagged) and lib/utils.js (BufferStream, parseCBORint),  *)
(* Simple.decode and the constants of lib/constants.js.                    *)
(*                                                                         *)
(* Integers of the program reach 2^64, beyond the integers TLC computes    *)
(* with, so a magnitude is a big-endian sequence of base-256 digits        *)
(* without leading zeros (zero is the empty sequence).  A JavaScript value *)
(* is a record tagged by its typeof ("t"); objects live in a heap and are  *)
(* referred to by identity.                                                *)
(***************************************************************************)
EXTENDS Integers, Sequences, FiniteSets, TLC

VARIABLES
  heap,         \* the JavaScript objects: identity -> object
  opts,         \* the options the Encoder was constructed with
  stream,       \* Encoder.stream: the buffers pushed and not yet flushed
  detectLoops,  \* Encoder.detectLoops: [on: false | a WeakSet, has: its members]
  arg,          \* the argument of the operation under study
  ret,          \* what the last operation returned or threw
  bs,           \* a BufferStream: [bytes, index]
  tagged,       \* a Tagged object: [tag, value, err]
  pc            \* the position of the driver of the operations

vars == <<heap, opts, stream, detectLoops, arg, ret, bs, tagged, pc>>

-----------------------------------------------------------------------------
(* Bytes, bits and magnitudes *)

Byte == 0..255

Zeros(k) == [i \in 1..k |-> 0]

RECURSIVE Norm(_)
Norm(s) == IF s # <<>> /\ Head(s) = 0 THEN Norm(Tail(s)) ELSE s

\* s as w bytes: the value modulo 256^w, zero-extended
PadTo(s, w) ==
  IF Len(s) >= w THEN SubSeq(s, Len(s) - w + 1, Len(s))
  ELSE Zeros(w - Len(s)) \o s

\* a < b on magnitudes without leading zeros
NLt(a, b) ==
  \/ Len(a) < Len(b)
  \/ /\ Len(a) = Len(b)
     /\ \E i \in 1..Len(a) :
          /\ a[i] < b[i]
          /\ \A j \in 1..(i - 1) : a[j] = b[j]

NLe(a, b) == a = b \/ NLt(a, b)

\* the magnitude of a small natural number
RECURSIVE NOf(_)
NOf(k) == IF k = 0 THEN <<>> ELSE NOf(k \div 256) \o <<k % 256>>

\* the natural number of a small magnitude
RECURSIVE ToInt(_)
ToInt(s) ==
  IF s = <<>> THEN 0 ELSE ToInt(SubSeq(s, 1, Len(s) - 1)) * 256 + s[Len(s)]

\* n - 1 for n > 0, and n + 1
RECURSIVE DecRaw(_)
DecRaw(s) ==
  LET n == Len(s) IN
  IF s[n] > 0 THEN [s EXCEPT ![n] = s[n] - 1]
  ELSE DecRaw(SubSeq(s, 1, n - 1)) \o <<255>>

NDec(s) == Norm(DecRaw(s))

RECURSIVE NInc(_)
NInc(s) ==
  LET n == Len(s) IN
  IF n = 0 THEN <<1>>
  ELSE IF s[n] < 255 THEN [s EXCEPT ![n] = s[n] + 1]
  ELSE NInc(SubSeq(s, 1, n - 1)) \o <<0>>

\* the w bits of k, most significant first
RECURSIVE BitsOf(_, _)
BitsOf(k, w) == IF w = 0 THEN <<>> ELSE BitsOf(k \div 2, w - 1) \o <<k % 2>>

RECURSIVE BitsOfBytes(_)
BitsOfBytes(s) ==
  IF s = <<>> THEN <<>> ELSE BitsOf(Head(s), 8) \o BitsOfBytes(Tail(s))

RECURSIVE BitsVal(_)
BitsVal(b) ==
  IF b = <<>> THEN 0 ELSE BitsVal(SubSeq(b, 1, Len(b) - 1)) * 2 + b[Len(b)]

BytesOfBits(b) ==
  [i \in 1..(Len(b) \div 8) |-> BitsVal(SubSeq(b, 8 * i - 7, 8 * i))]

\* the bits of a magnitude from its leading 1 on
SigBits(s) == Norm(BitsOfBytes(s))

RECURSIVE StripTrailingZeros(_)
StripTrailingZeros(b) ==
  IF b # <<>> /\ b[Len(b)] = 0
  THEN StripTrailingZeros(SubSeq(b, 1, Len(b) - 1)) ELSE b

\* b cut or zero-extended on the right to w bits
FitRight(b, w) ==
  IF Len(b) >= w THEN SubSeq(b, 1, w) ELSE b \o Zeros(w - Len(b))

RECURSIVE Flatten(_)
Flatten(bufs) ==
  IF bufs = <<>> THEN <<>> ELSE Head(bufs) \o Flatten(Tail(bufs))

-----------------------------------------------------------------------------
(* lib/constants.js *)

MT_POS_INT == 0
MT_NEG_INT == 1
MT_BYTE_STRING == 2
MT_UTF8_STRING == 3
MT_ARRAY == 4
MT_MAP == 5
MT_TAG == 6
MT_SIMPLE_FLOAT == 7

TAG_POS_BIGINT == 2
TAG_NEG_BIGINT == 3
TAG_SET == 258

NUMBYTES_ONE == 24
NUMBYTES_TWO == 25
NUMBYTES_FOUR == 26
NUMBYTES_EIGHT == 27
NUMBYTES_INDEFINITE == 31

SIMPLE_FALSE == 20
SIMPLE_TRUE == 21
SIMPLE_NULL == 22
SIMPLE_UNDEFINED == 23

\* MAX_SAFE_HIGH = 0x1fffff
MAX_SAFE_HIGH == <<31, 255, 255>>

\* Number.MAX_SAFE_INTEGER = 2^53 - 1
MAX_SAFE_INTEGER == <<31, 255, 255, 255, 255, 255, 255>>

\* BI.MAXINT32, BI.MAXINT64
MAXINT32 == <<255, 255, 255, 255>>
MAXINT64 == <<255, 255, 255, 255, 255, 255, 255, 255>>

-----------------------------------------------------------------------------
(* JavaScript values *)

Num(neg, mag) == [t |-> "number", neg |-> neg, mag |-> mag]
BigI(neg, mag) == [t |-> "bigint", neg |-> neg, mag |-> mag]
\* a number that is not an integer, kept as the bytes of its IEEE-754 form
Flt(bits) == [t |-> "float", bits |-> bits]
Bool(b) == [t |-> "boolean", b |-> b]
Str(units) == [t |-> "string", units |-> units]
Null == [t |-> "null"]
Undefined == [t |-> "undefined"]
Ref(id) == [t |-> "object", id |-> id]

\* a double holds an integer exactly when it has at most 53 significant bits
IsDouble(mag) == Len(StripTrailingZeros(SigBits(mag))) <= 53

\* x - 1 in double arithmetic for an integer x >= 1: exact up to 2^53; above,
\* x - 1 is x (ulp >= 4) or a tie between x - 2 and x that goes to the even
\* mantissa (ulp = 2)
DblMinusOne(mag) ==
  IF NLe(mag, NInc(MAX_SAFE_INTEGER)) THEN NDec(mag)
  ELSE IF Len(SigBits(mag)) = 54 /\ mag[Len(mag)] % 4 = 2 THEN NDec(NDec(mag))
  ELSE mag

-----------------------------------------------------------------------------
(* lib/Encoder.js: the writers.  g is the Encoder: [stream, dl, err], where  *)
(* err is the message of the exception that is propagating ("" when none).   *)

HALF == MT_SIMPLE_FLOAT * 32 + NUMBYTES_TWO
FLOAT == MT_SIMPLE_FLOAT * 32 + NUMBYTES_FOUR
DOUBLE == MT_SIMPLE_FLOAT * 32 + NUMBYTES_EIGHT
TRUE_BYTE == MT_SIMPLE_FLOAT * 32 + SIMPLE_TRUE
FALSE_BYTE == MT_SIMPLE_FLOAT * 32 + SIMPLE_FALSE
UNDEFINED_BYTE == MT_SIMPLE_FLOAT * 32 + SIMPLE_UNDEFINED
NULL_BYTE == MT_SIMPLE_FLOAT * 32 + SIMPLE_NULL

BREAK == <<255>>
BUF_NAN == <<249, 126, 0>>
BUF_INF_NEG == <<249, 252, 0>>
BUF_INF_POS == <<249, 124, 0>>
BUF_NEG_ZERO == <<249, 128, 0>>

\* new Encoder(options)
NewEncoder(o) ==
  [stream |-> <<>>, dl |-> [on |-> o.detectLoops, has |-> {}], err |-> "",
   opts |-> o]

Throw(g, msg) == [g EXCEPT !.err = msg]

push_reversed(g, buf) == [g EXCEPT !.stream = <<buf>> \o @]

push(g, buf) == [g EXCEPT !.stream = Append(@, buf)]

\* val is a small number here, a magnitude in the wider writers
_pushUInt8(g, val) == push(g, <<val % 256>>)

_pushUInt16BE_little(g, val) ==
  push(g, <<PadTo(val, 2)[2], PadTo(val, 2)[1]>>)

_pushUInt16BE(g, val) == push(g, PadTo(val, 2))

_pushUInt32BE(g, val) == push(g, PadTo(val, 4))

\* Math.fround(obj) === obj for an integer: 24 significant bits, exponent <= 127
FroundIsSame(mag) ==
  /\ Len(StripTrailingZeros(SigBits(mag))) <= 24
  /\ Len(SigBits(mag)) <= 128

\* DataView.setFloat32 / setFloat64 of an integer-valued number
IeeeBytes(obj, expBits, bias, mantBits) ==
  LET sig == SigBits(obj.mag)
      sign == IF obj.neg THEN 1 ELSE 0
  IN  IF sig = <<>> THEN BytesOfBits(<<sign>> \o Zeros(expBits + mantBits))
      ELSE BytesOfBits(<<sign>> \o BitsOf(Len(sig) - 1 + bias, expBits)
                         \o FitRight(Tail(sig), mantBits))

\* the fields of the double kept in eight bytes
DblNeg(bits) == bits[1] >= 128
DblExp(bits) == (bits[1] % 128) * 16 + (bits[2] \div 16)
DblMant(bits) == SubSeq(BitsOfBytes(bits), 13, 64)
DblMantLen(bits) == Len(StripTrailingZeros(DblMant(bits)))

\* Math.fround(obj) === obj for a double that is no integer: a normal single
\* has 23 bits of mantissa and an exponent of -126 to 127, a subnormal one is
\* a multiple of 2^-149
FroundIsSameFlt(bits) ==
  LET e == DblExp(bits) - 1023 IN
  /\ DblExp(bits) \in 1..2046
  /\ e <= 127
  /\ IF e >= -126 THEN DblMantLen(bits) <= 23
     ELSE e >= -149 /\ DblMantLen(bits) <= e + 149

\* DataView.setFloat32 of a double that a single holds
Float32Bytes(bits) ==
  LET e == DblExp(bits) - 1023
      sign == IF DblNeg(bits) THEN 1 ELSE 0
  IN  IF e >= -126
      THEN BytesOfBits(<<sign>> \o BitsOf(e + 127, 8)
                         \o SubSeq(DblMant(bits), 1, 23))
      ELSE BytesOfBits(<<sign>> \o Zeros(8) \o Zeros(23 - (e + 150)) \o <<1>>
                         \o SubSeq(DblMant(bits), 1, e + 149))

_pushFloatBE(g, obj) ==
  push(g, IF obj.t = "float" THEN Float32Bytes(obj.bits)
          ELSE IeeeBytes(obj, 8, 127, 23))

_pushDoubleBE(g, obj) ==
  push(g, IF obj.t = "float" THEN obj.bits ELSE IeeeBytes(obj, 11, 1023, 52))

_pushNaN(g) == push(g, BUF_NAN)

\* obj < 0 ? BUF_INF_NEG : BUF_INF_POS
_pushInfinity(g, obj) ==
  push(g, IF DblNeg(obj.bits) THEN BUF_INF_NEG ELSE BUF_INF_POS)

\* Math.fround(obj) === obj
IsSingle(obj) ==
  IF obj.t = "float" THEN FroundIsSameFlt(obj.bits) ELSE FroundIsSame(obj.mag)

_pushFloat_double(g, obj) == _pushDoubleBE(_pushUInt8(g, DOUBLE), obj)

\* this.canonical is always false: the constructor throws otherwise
_pushFloat(g, obj) ==
  IF IsSingle(obj) THEN _pushFloatBE(_pushUInt8(g, FLOAT), obj)
  ELSE _pushDoubleBE(_pushUInt8(g, DOUBLE), obj)

\* obj is the magnitude of a non-negative integer-valued number
_pushInt(g, obj, mt, orig) ==
  LET m == mt * 32 IN
  IF NLt(obj, NOf(24)) THEN _pushUInt8(g, m + ToInt(obj))
  ELSE IF NLe(obj, <<255>>)
    THEN _pushUInt8(_pushUInt8(g, m + NUMBYTES_ONE), ToInt(obj))
  ELSE IF NLe(obj, <<255, 255>>)
    THEN _pushUInt16BE(_pushUInt8(g, m + NUMBYTES_TWO), obj)
  ELSE IF NLe(obj, MAXINT32)
    THEN _pushUInt32BE(_pushUInt8(g, m + NUMBYTES_FOUR), obj)
  ELSE IF NLe(obj, MAX_SAFE_INTEGER)
    THEN _pushUInt32BE(
           _pushUInt32BE(_pushUInt8(g, m + NUMBYTES_EIGHT),
                         SubSeq(PadTo(obj, 8), 1, 4)),   \* floor(obj / SHIFT32)
           SubSeq(PadTo(obj, 8), 5, 8))                  \* obj % SHIFT32
  ELSE \* mt === MT.NEG_INT ? this._pushFloat(orig) : this._pushFloat(obj)
       _pushFloat(g, IF mt = MT_NEG_INT THEN orig ELSE Num(FALSE, obj))

_pushIntNum(g, obj) ==
  IF obj.neg /\ obj.mag = <<>> THEN push(g, BUF_NEG_ZERO)
  ELSE IF obj.neg THEN _pushInt(g, DblMinusOne(obj.mag), MT_NEG_INT, obj)
  ELSE _pushInt(g, obj.mag, MT_POS_INT, obj)

\* a number is a "number" when it is an integer and else a "float", the
\* double in eight bytes
isNaN(obj) ==
  obj.t = "float" /\ DblExp(obj.bits) = 2047 /\ DblMantLen(obj.bits) > 0

isFinite(obj) == obj.t = "number" \/ DblExp(obj.bits) # 2047

_pushNumber(g, obj) ==
  IF isNaN(obj) THEN _pushNaN(g)
  ELSE IF ~isFinite(obj) THEN _pushInfinity(g, obj)
  ELSE IF obj.t = "number" THEN _pushIntNum(g, obj)   \* Math.round(obj) === obj
  ELSE _pushFloat(g, obj)

_pushBoolean(g, obj) == _pushUInt8(g, IF obj.b THEN TRUE_BYTE ELSE FALSE_BYTE)

_pushNull(g) == _pushUInt8(g, NULL_BYTE)

-----------------------------------------------------------------------------
(* Strings: a string is its sequence of UTF-16 code units *)

IsHighSurrogate(u) == u >= 55296 /\ u <= 56319
IsLowSurrogate(u) == u >= 56320 /\ u <= 57343

Utf8OfCodePoint(c) ==
  IF c < 128 THEN <<c>>
  ELSE IF c < 2048 THEN <<192 + (c \div 64), 128 + (c % 64)>>
  ELSE IF c < 65536
    THEN <<224 + (c \div 4096), 128 + ((c \div 64) % 64), 128 + (c % 64)>>
  ELSE <<240 + (c \div 262144), 128 + ((c \div 4096) % 64),
         128 + ((c \div 64) % 64), 128 + (c % 64)>>

\* new TextEncoder().encode(obj): a lone surrogate becomes U+FFFD
RECURSIVE TextEncode(_)
TextEncode(u) ==
  IF u = <<>> THEN <<>>
  ELSE IF IsHighSurrogate(u[1]) /\ Len(u) >= 2 /\ IsLowSurrogate(u[2])
    THEN Utf8OfCodePoint(65536 + (u[1] - 55296) * 1024 + (u[2] - 56320))
           \o TextEncode(SubSeq(u, 3, Len(u)))
  ELSE IF IsHighSurrogate(u[1]) \/ IsLowSurrogate(u[1])
    THEN <<239, 191, 189>> \o TextEncode(Tail(u))
  ELSE Utf8OfCodePoint(u[1]) \o TextEncode(Tail(u))

_pushString_unitLength(g, obj) ==
  push(_pushInt(g, NOf(Len(obj.units)), MT_UTF8_STRING, Undefined),
       TextEncode(obj.units))

_pushString(g, obj) ==
  LET buf == TextEncode(obj.units) IN
  push(_pushInt(g, NOf(Len(buf)), MT_UTF8_STRING, Undefined), buf)

_pushTag(g, tag) == _pushInt(g, NOf(tag), MT_TAG, Undefined)

_pushByteString(g, obj) ==
  push(_pushInt(g, NOf(Len(obj)), MT_BYTE_STRING, Undefined), obj)

\* obj is the data of a Uint8Array: a simple byte string
_pushTypedArray(g, obj) == _pushByteString(g, obj)

_pushJSBigint_noMinusOne(g, obj) ==
  LET neg == obj.neg /\ obj.mag # <<>>            \* obj < 0
      v == obj.mag
      m == IF neg THEN MT_NEG_INT ELSE MT_POS_INT
      tag == IF neg THEN TAG_NEG_BIGINT ELSE TAG_POS_BIGINT
      \* obj.toString(16), zero-padded to whole bytes
      buf == IF v = <<>> THEN <<0>> ELSE v
  IN  IF g.opts.collapseBigIntegers /\ NLe(v, MAXINT64)
      THEN IF NLe(v, MAXINT32) THEN _pushInt(g, v, m, Undefined)
           ELSE _pushUInt32BE(
                  _pushUInt32BE(_pushUInt8(g, m * 32 + NUMBYTES_EIGHT),
                                SubSeq(PadTo(v, 8), 1, 4)),
                  SubSeq(PadTo(v, 8), 5, 8))
      ELSE _pushByteString(_pushTag(g, tag), buf)

_pushJSBigint(g, obj) ==
  LET neg == obj.neg /\ obj.mag # <<>>            \* obj < 0
      v == IF neg THEN NDec(obj.mag) ELSE obj.mag \* -obj + BI.MINUS_ONE
      m == IF neg THEN MT_NEG_INT ELSE MT_POS_INT
      tag == IF neg THEN TAG_NEG_BIGINT ELSE TAG_POS_BIGINT
      \* obj.toString(16), zero-padded to whole bytes
      buf == IF v = <<>> THEN <<0>> ELSE v
  IN  IF g.opts.collapseBigIntegers /\ NLe(v, MAXINT64)
      THEN IF NLe(v, MAXINT32) THEN _pushInt(g, v, m, Undefined)
           ELSE _pushUInt32BE(
                  _pushUInt32BE(_pushUInt8(g, m * 32 + NUMBYTES_EIGHT),
                                SubSeq(PadTo(v, 8), 1, 4)),
                  SubSeq(PadTo(v, 8), 5, 8))
      ELSE _pushByteString(_pushTag(g, tag), buf)

-----------------------------------------------------------------------------
(* Objects.  A heap object is [k, keys, items, data, encodeCBOR]: k is the  *)
(* constructor's name; an Array or Set has items; a Map or Object has keys  *)
(* and items (the values); a Uint8Array has data; encodeCBOR names the      *)
(* object's own hook, "none" when it has none.                              *)

Obj(k, keys, items, data, hook) ==
  [k |-> k, keys |-> keys, items |-> items, data |-> data, encodeCBOR |-> hook]

Func == [t |-> "function"]

LOOP_MSG == "Loop detected while CBOR encoding. Call removeLoopDetectors before resuming."
OVERFLOW_MSG == "Maximum call stack size exceeded"

\* the constructor names the encoder has a semantic type for
semanticTypes == {"Array", "Map", "Set", "Uint8Array"}

IndexesKept_functionsOnly(g, ob) ==
  {j \in 1..Len(ob.items) : ob.items[j].t # "function"}

IndexesKept(g, ob) ==
  {j \in 1..Len(ob.items) :
     /\ ob.items[j].t # "function"
     /\ (~g.opts.omitUndefinedProperties \/ ob.items[j].t # "undefined")}

\* the subsequence of s at the indexes of keep, in order
RECURSIVE Filter(_, _, _)
Filter(s, keep, j) ==
  IF j > Len(s) THEN <<>>
  ELSE (IF j \in keep THEN <<s[j]>> ELSE <<>>) \o Filter(s, keep, j + 1)

\* this.detectLoops.has(obj), .add(obj), .delete(obj)
detectLoops_has_never(g, id) == FALSE

detectLoops_has(g, id) == id \in g.dl.has

detectLoops_add(g, id) == [g EXCEPT !.dl.has = @ \cup {id}]

detectLoops_delete(g, id) == [g EXCEPT !.dl.has = @ \ {id}]

RECURSIVE pushAny(_, _, _, _)
RECURSIVE pushEach(_, _, _, _)
RECURSIVE pushEntries(_, _, _, _, _)
RECURSIVE pushProps(_, _, _, _, _)
RECURSIVE _pushArray(_, _, _, _, _)
RECURSIVE _pushSet(_, _, _, _)
RECURSIVE _pushMap(_, _, _, _, _)
RECURSIVE _pushObject(_, _, _, _, _)
RECURSIVE _pushUndefined(_, _, _, _)
RECURSIVE encodeIndefinite(_, _, _, _, _)
RECURSIVE chunkString(_, _, _, _, _)
RECURSIVE chunkBuffer(_, _, _, _, _)

\* for(...) { if(!gen.pushAny(x)) return false; }: an exception ends the loop
pushEach(H, g, items, d) ==
  IF items = <<>> \/ g.err # "" THEN g
  ELSE pushEach(H, pushAny(H, g, Head(items), d), Tail(items), d)

_pushArray_noBreak(H, g, obj, o, d) ==
  pushEach(H,
           IF o.indefinite THEN _pushUInt8(g, MT_ARRAY * 32 + NUMBYTES_INDEFINITE)
           ELSE _pushInt(g, NOf(Len(obj.items)), MT_ARRAY, Undefined),
           obj.items, d)

_pushArray(H, g, obj, o, d) ==
  LET len == Len(obj.items)
      g1 == IF o.indefinite
            THEN _pushUInt8(g, MT_ARRAY * 32 + NUMBYTES_INDEFINITE)
            ELSE _pushInt(g, NOf(len), MT_ARRAY, Undefined)
      g2 == pushEach(H, g1, obj.items, d)
  IN  IF g2.err # "" THEN g2
      ELSE IF o.indefinite THEN push(g2, BREAK)
      ELSE g2

_pushSet(H, g, obj, d) ==
  pushEach(H,
           _pushInt(_pushTag(g, TAG_SET), NOf(Len(obj.items)), MT_ARRAY, Undefined),
           obj.items, d)

pushEntries(H, g, keys, items, d) ==
  IF keys = <<>> \/ g.err # "" THEN g
  ELSE IF g.opts.disallowUndefinedKeys /\ Head(keys).t = "undefined"
    THEN Throw(g, "Invalid Map key: undefined")
  ELSE LET g1 == pushAny(H, g, Head(keys), d)
           g2 == IF g1.err # "" THEN g1 ELSE pushAny(H, g1, Head(items), d)
       IN  pushEntries(H, g2, Tail(keys), Tail(items), d)

_pushMap(H, g, obj, o, d) ==
  LET keep == IF g.opts.omitUndefinedProperties
              THEN {j \in 1..Len(obj.items) : obj.items[j].t # "undefined"}
              ELSE 1..Len(obj.items)
      keys == Filter(obj.keys, keep, 1)
      items == Filter(obj.items, keep, 1)
      g1 == IF o.indefinite
            THEN _pushUInt8(g, MT_MAP * 32 + NUMBYTES_INDEFINITE)
            ELSE _pushInt(g, NOf(Len(keys)), MT_MAP, Undefined)
      g2 == pushEntries(H, g1, keys, items, d)
  IN  IF g2.err # "" THEN g2
      ELSE IF o.indefinite THEN push(g2, BREAK)
      ELSE g2

pushProps(H, g, keys, items, d) ==
  IF keys = <<>> \/ g.err # "" THEN g
  ELSE pushProps(H, pushAny(H, _pushString(g, Head(keys)), Head(items), d),
                 Tail(keys), Tail(items), d)

\* String.prototype.slice / TypedArray.prototype.slice on a sequence
Slice(s, a, b) ==
  LET len == Len(s)
      from == IF a < 0 THEN (IF len + a > 0 THEN len + a ELSE 0)
              ELSE (IF a < len THEN a ELSE len)
      to == IF b < 0 THEN (IF len + b > 0 THEN len + b ELSE 0)
            ELSE (IF b < len THEN b ELSE len)
  IN  IF from < to THEN SubSeq(s, from + 1, to) ELSE <<>>

DEFAULT_CHUNK_SIZE == 4096

HANG_MSG == "the loop does not end"

\* while(offset < obj.length) {...}: n bounds the iterations looked at
chunkString(g, units, offset, chunkSize, n) ==
  IF ~(offset < Len(units)) THEN g
  ELSE IF n = 0 THEN Throw(g, HANG_MSG)
  ELSE chunkString(_pushString(g, Str(Slice(units, offset, offset + chunkSize))),
                   units, offset + chunkSize, chunkSize, n - 1)

chunkBuffer(g, buf, offset, chunkSize, n) ==
  IF ~(offset < Len(buf)) THEN g
  ELSE IF n = 0 THEN Throw(g, HANG_MSG)
  ELSE chunkBuffer(_pushTypedArray(g, Slice(buf, offset, offset + chunkSize)),
                   buf, offset + chunkSize, chunkSize, n - 1)

_pushObject_semanticFirst(H, g, obj, o, d) ==
  IF obj.t = "null" THEN _pushNull(g)
  ELSE
    LET ob == H[obj.id]
        check == ~o.indefinite /\ g.dl.on
        g1 == IF check THEN detectLoops_add(g, obj.id) ELSE g
        \* Object.keys(obj) of anything but a plain object: no entries here
        keep == IF ob.k = "Object" THEN IndexesKept(g, ob) ELSE {}
        keys == Filter(ob.keys, keep, 1)
        g2 == IF o.indefinite
              THEN _pushUInt8(g1, MT_MAP * 32 + NUMBYTES_INDEFINITE)
              ELSE _pushInt(g1, NOf(Len(keys)), MT_MAP, Undefined)
        g3 == pushProps(H, g2, keys, Filter(ob.items, keep, 1), d)
    IN  IF check /\ detectLoops_has(g, obj.id) THEN Throw(g, LOOP_MSG)
        ELSE IF ~o.skipTypes /\ ob.k \in semanticTypes
          THEN CASE ob.k = "Array" -> _pushArray(H, g1, ob, [indefinite |-> FALSE], d)
                 [] ob.k = "Map" -> _pushMap(H, g1, ob, [indefinite |-> FALSE], d)
                 [] ob.k = "Set" -> _pushSet(H, g1, ob, d)
                 [] ob.k = "Uint8Array" -> _pushTypedArray(g1, ob.data)
        ELSE IF ~o.skipTypes /\ ob.encodeCBOR = "encodeIndefinite"
          THEN encodeIndefinite(H, g1, obj, [chunkSize |-> DEFAULT_CHUNK_SIZE], d)
        ELSE IF g3.err # "" THEN g3
        ELSE IF o.indefinite THEN push(g3, BREAK)
        ELSE IF g3.dl.on THEN detectLoops_delete(g3, obj.id)
        ELSE g3

_pushObject(H, g, obj, o, d) ==
  IF obj.t = "null" THEN _pushNull(g)
  ELSE
    LET ob == H[obj.id]
        check == ~o.indefinite /\ g.dl.on
        g1 == IF check THEN detectLoops_add(g, obj.id) ELSE g
        \* Object.keys(obj) of anything but a plain object: no entries here
        keep == IF ob.k = "Object" THEN IndexesKept(g, ob) ELSE {}
        keys == Filter(ob.keys, keep, 1)
        g2 == IF o.indefinite
              THEN _pushUInt8(g1, MT_MAP * 32 + NUMBYTES_INDEFINITE)
              ELSE _pushInt(g1, NOf(Len(keys)), MT_MAP, Undefined)
        g3 == pushProps(H, g2, keys, Filter(ob.items, keep, 1), d)
    IN  IF check /\ detectLoops_has(g, obj.id) THEN Throw(g, LOOP_MSG)
        ELSE IF ~o.skipTypes /\ ob.encodeCBOR = "encodeIndefinite"
          THEN encodeIndefinite(H, g1, obj, [chunkSize |-> DEFAULT_CHUNK_SIZE], d)
        ELSE IF ~o.skipTypes /\ ob.k \in semanticTypes
          THEN CASE ob.k = "Array" -> _pushArray(H, g1, ob, [indefinite |-> FALSE], d)
                 [] ob.k = "Map" -> _pushMap(H, g1, ob, [indefinite |-> FALSE], d)
                 [] ob.k = "Set" -> _pushSet(H, g1, ob, d)
                 [] ob.k = "Uint8Array" -> _pushTypedArray(g1, ob.data)
        ELSE IF g3.err # "" THEN g3
        ELSE IF o.indefinite THEN push(g3, BREAK)
        ELSE IF g3.dl.on THEN detectLoops_delete(g3, obj.id)
        ELSE g3

_pushUndefined_unset(H, g, obj, d) == _pushUInt8(g, UNDEFINED_BYTE)

_pushUndefined(H, g, obj, d) ==
  LET eu == g.opts.encodeUndefined IN
  IF eu.t = "undefined" THEN _pushUInt8(g, UNDEFINED_BYTE)
  ELSE IF eu.t = "function" THEN pushAny(H, g, eu.returns, d)
  ELSE IF eu.t = "object" /\ H[eu.id].k = "Uint8Array" THEN push(g, H[eu.id].data)
  ELSE pushAny(H, g, eu, d)

encodeIndefinite_checksRoot(H, g, obj, options, d) ==
  IF obj.t = "object" /\ g.dl.on /\ detectLoops_has(g, obj.id)
    THEN Throw(g, LOOP_MSG)
  ELSE
  IF obj.t = "string"
    THEN LET g1 == chunkString(
                     _pushUInt8(g, MT_UTF8_STRING * 32 + NUMBYTES_INDEFINITE),
                     obj.units, 0, options.chunkSize, Len(obj.units) + 1)
         IN  IF g1.err # "" THEN g1 ELSE push(g1, BREAK)
  ELSE IF obj.t # "object" THEN Throw(g, "Invalid indefinite encoding")
  ELSE
    LET ob == H[obj.id] IN
    IF ob.k = "Uint8Array"
      THEN LET g1 == chunkBuffer(
                       _pushUInt8(g, MT_BYTE_STRING * 32 + NUMBYTES_INDEFINITE),
                       ob.data, 0, options.chunkSize, Len(ob.data) + 1)
           IN  IF g1.err # "" THEN g1 ELSE push(g1, BREAK)
    ELSE IF ob.k = "Array" THEN _pushArray(H, g, ob, [indefinite |-> TRUE], d)
    ELSE IF ob.k = "Map" THEN _pushMap(H, g, ob, [indefinite |-> TRUE], d)
    ELSE _pushObject(H, g, obj, [indefinite |-> TRUE, skipTypes |-> TRUE], d)

\* obj is a string or an object; with obj == null the hook's this is used
encodeIndefinite(H, g, obj, options, d) ==
  IF obj.t = "string"
    THEN LET g1 == chunkString(
                     _pushUInt8(g, MT_UTF8_STRING * 32 + NUMBYTES_INDEFINITE),
                     obj.units, 0, options.chunkSize, Len(obj.units) + 1)
         IN  IF g1.err # "" THEN g1 ELSE push(g1, BREAK)
  ELSE IF obj.t # "object" THEN Throw(g, "Invalid indefinite encoding")
  ELSE
    LET ob == H[obj.id] IN
    IF ob.k = "Uint8Array"
      THEN LET g1 == chunkBuffer(
                       _pushUInt8(g, MT_BYTE_STRING * 32 + NUMBYTES_INDEFINITE),
                       ob.data, 0, options.chunkSize, Len(ob.data) + 1)
           IN  IF g1.err # "" THEN g1 ELSE push(g1, BREAK)
    ELSE IF ob.k = "Array" THEN _pushArray(H, g, ob, [indefinite |-> TRUE], d)
    ELSE IF ob.k = "Map" THEN _pushMap(H, g, ob, [indefinite |-> TRUE], d)
    ELSE _pushObject(H, g, obj, [indefinite |-> TRUE, skipTypes |-> TRUE], d)

\* d is the room left on the call stack
pushAny(H, g, obj, d) ==
  IF d = 0 THEN Throw(g, OVERFLOW_MSG)
  ELSE CASE obj.t \in {"number", "float"} -> _pushNumber(g, obj)
         [] obj.t = "bigint" -> _pushJSBigint(g, obj)
         [] obj.t = "string" -> _pushString(g, obj)
         [] obj.t = "boolean" -> _pushBoolean(g, obj)
         [] obj.t = "undefined" -> _pushUndefined(H, g, obj, d - 1)
         [] obj.t \in {"object", "null"} ->
              _pushObject(H, g, obj, [indefinite |-> FALSE, skipTypes |-> FALSE], d - 1)
         [] OTHER -> Throw(g, "Unknown type: " \o obj.t)

\* util.concatBuffers
concatBuffers(bufs) == Flatten(bufs)

-----------------------------------------------------------------------------
(* The state of the model *)

DefaultOpts ==
  [encodeUndefined |-> Undefined, disallowUndefinedKeys |-> FALSE,
   collapseBigIntegers |-> FALSE, detectLoops |-> FALSE,
   omitUndefinedProperties |-> FALSE]

\* the room on the call stack, in nested pushAny calls
MaxDepth == 6

NoHeap == <<>>
NoRet == [op |-> "", st |-> "none", out |-> <<>>, msg |-> "", val |-> Undefined]
NoBs == [bytes |-> <<>>, index |-> 0]
NoTagged == [t |-> "tagged", tag |-> <<>>, value |-> Undefined, err |-> Undefined]

\* the Encoder instance held in the variables
Enc == [stream |-> stream, dl |-> detectLoops, err |-> "", opts |-> opts]

-----------------------------------------------------------------------------
(* SpecInt: one integer-valued number is pushed on a new Encoder *)

P32 == <<1, 0, 0, 0, 0>>
P53 == <<32, 0, 0, 0, 0, 0, 0>>
P64 == <<1, 0, 0, 0, 0, 0, 0, 0, 0>>

IntMags ==
  {NOf(k) : k \in {0, 1, 10, 22, 23, 24, 25, 100, 254, 255, 256, 257, 1000,
                   65534, 65535, 65536, 65537, 1000000}}
  \cup {<<255, 255, 255, 254>>, MAXINT32, P32, NInc(P32),
        <<1, 0, 0, 0, 0, 0>>, <<16, 0, 0, 0, 0, 0, 0>>,
        NDec(MAX_SAFE_INTEGER), MAX_SAFE_INTEGER, P53, NInc(NInc(P53)),
        <<64, 0, 0, 0, 0, 0, 0>>, <<128, 0, 0, 0, 0, 0, 0, 0>>,
        <<255, 255, 255, 255, 255, 255, 248, 0>>, P64,
        <<1, 0, 0, 0, 0, 0, 0, 16, 0>>}

IntInputs == {Num(neg, mag) : neg \in BOOLEAN, mag \in IntMags}

InitInt ==
  /\ heap = NoHeap
  /\ opts = DefaultOpts
  /\ stream = <<>>
  /\ detectLoops = [on |-> FALSE, has |-> {}]
  /\ arg \in IntInputs
  /\ ret = NoRet
  /\ bs = NoBs
  /\ tagged = NoTagged
  /\ pc = "int"

\* enc.pushAny(arg) for a number
PushNumber ==
  /\ pc = "int"
  /\ LET g == pushAny(heap, Enc, arg, MaxDepth) IN
       /\ stream' = g.stream
       /\ ret' = [NoRet EXCEPT !.op = "pushAny", !.st = "ok"]
  /\ pc' = "done"
  /\ UNCHANGED <<heap, opts, detectLoops, arg, bs, tagged>>

NextInt == PushNumber

SpecInt == InitInt /\ [][NextInt]_vars

\* the head the format asks for: the smallest of the five widths
MinimalHead(mt, n) ==
  IF NLt(n, <<24>>) THEN <<mt * 32 + ToInt(n)>>
  ELSE LET w == CHOOSE w \in {1, 2, 4, 8} :
                  /\ Len(n) <= w
                  /\ \A u \in {1, 2, 4, 8} : Len(n) <= u => w <= u
           ai == CASE w = 1 -> 24 [] w = 2 -> 25 [] w = 4 -> 26 [] w = 8 -> 27
       IN  <<mt * 32 + ai>> \o PadTo(n, w)

\* the major type and the argument of the integer arg, in exact arithmetic
ArgMt == IF arg.neg THEN MT_NEG_INT ELSE MT_POS_INT
ArgN == IF arg.neg THEN NDec(arg.mag) ELSE arg.mag
IsNegZero(v) == v.neg /\ v.mag = <<>>

-----------------------------------------------------------------------------
(* SpecEnc: one Encoder instance, used again after any outcome *)

A_(items) == Obj("Array", <<>>, items, <<>>, "none")
N_(k) == Num(FALSE, NOf(k))
Key_a == Str(<<97>>)
Key_b == Str(<<98>>)

\* values that share an array; a typed array
HeapShared ==
  <<A_(<<N_(1), N_(2)>>),
    A_(<<Ref(1), Ref(1)>>),
    Obj("Object", <<Key_a, Key_b>>, <<N_(1), Ref(1)>>, <<>>, "none"),
    Obj("Uint8Array", <<>>, <<>>, <<1, 2, 3>>, "none")>>

\* values that reach themselves through an array, a Map value, a Set
HeapCyclic ==
  <<A_(<<N_(1), Ref(1)>>),
    Obj("Map", <<Key_a>>, <<Ref(3)>>, <<>>, "none"),
    A_(<<Ref(2)>>),
    Obj("Set", <<>>, <<N_(7), Ref(4)>>, <<>>, "none")>>

\* ... through a property, a Map key, and with encodeIndefinite as the hook
HeapCyclicHook ==
  <<Obj("Object", <<Key_a>>, <<Ref(1)>>, <<>>, "none"),
    Obj("Map", <<Ref(2)>>, <<N_(1)>>, <<>>, "none"),
    Obj("Array", <<>>, <<N_(1), Ref(3)>>, <<>>, "encodeIndefinite"),
    Obj("Object", <<Key_a>>, <<Ref(4)>>, <<>>, "encodeIndefinite")>>

\* values the encoder refuses part-way, and acyclic values with the hook
HeapRefused ==
  <<A_(<<N_(1), Func>>),
    Obj("Map", <<N_(1), Undefined>>, <<N_(2), N_(3)>>, <<>>, "none"),
    Obj("Array", <<>>, <<N_(1), Ref(4)>>, <<>>, "encodeIndefinite"),
    Obj("Object", <<Key_a, Key_b>>, <<N_(1), Func>>, <<>>, "none")>>

\* an array, an object and a Map without a cycle, encodeIndefinite their hook
HeapHooked ==
  <<Obj("Array", <<>>, <<N_(1), Ref(4)>>, <<>>, "encodeIndefinite"),
    Obj("Object", <<Key_a>>, <<Ref(4)>>, <<>>, "encodeIndefinite"),
    Obj("Map", <<Key_a, Key_b>>, <<Ref(4), N_(2)>>, <<>>, "encodeIndefinite"),
    Obj("Object", <<Key_a>>, <<N_(1)>>, <<>>, "none")>>

Heaps == {HeapShared, HeapCyclic, HeapCyclicHook, HeapRefused, HeapHooked}

Roots(H) == {N_(500), Key_a} \cup {Ref(i) : i \in DOMAIN H}

\* the arguments of _encodeAll looked at
RootLists(H) == {<<v, w>> : v \in Roots(H), w \in {N_(500), Ref(1)}}

\* the pushAny calls on the instance for one flush
MaxPushes == 2

\* the objects an object refers to, and those it reaches
Children(H, id) ==
  {H[id].items[j].id : j \in {j \in 1..Len(H[id].items) : H[id].items[j].t = "object"}}
    \cup {H[id].keys[j].id : j \in {j \in 1..Len(H[id].keys) : H[id].keys[j].t = "object"}}

RECURSIVE ReachN(_, _, _)
ReachN(H, ids, n) ==
  IF n = 0 THEN ids
  ELSE ReachN(H, ids \cup UNION {Children(H, i) : i \in ids}, n - 1)

\* the objects reached from id in one step or more
Reach(H, id) == ReachN(H, Children(H, id), Len(H))

\* v holds an object that reaches itself
HasCycle(H, v) ==
  /\ v.t = "object"
  /\ \E i \in {v.id} \cup Reach(H, v.id) : i \in Reach(H, i)

InitEnc ==
  /\ heap \in Heaps
  /\ opts \in {[DefaultOpts EXCEPT !.detectLoops = dl, !.disallowUndefinedKeys = du] :
                 dl \in BOOLEAN, du \in BOOLEAN}
  /\ stream = <<>>
  /\ detectLoops = [on |-> opts.detectLoops, has |-> {}]
  /\ arg = [cur |-> <<>>, prev |-> <<>>]
  /\ ret = NoRet
  /\ bs = NoBs
  /\ tagged = NoTagged
  /\ pc = "enc"

LogEntry(v, g) == [v |-> v, ok |-> g.err = ""]

\* enc.pushAny(v); an exception leaves the instance as it is at the throw.
\* arg.cur logs the calls since the last flush, arg.prev those that fed it.
PushAny(v) ==
  /\ pc = "enc"
  /\ Len(arg.cur) < MaxPushes
  /\ \E g \in {pushAny(heap, Enc, v, MaxDepth)} :
       /\ stream' = g.stream
       /\ detectLoops' = g.dl
       /\ arg' = [cur |-> Append(arg.cur, LogEntry(v, g)), prev |-> <<>>]
       /\ ret' = [op |-> "pushAny", st |-> IF g.err = "" THEN "ok" ELSE "throw",
                  out |-> <<>>, msg |-> g.err, val |-> v]
  /\ UNCHANGED <<heap, opts, bs, tagged, pc>>

flush_keepsStream(g) == [g |-> g, result |-> concatBuffers(g.stream)]

\* enc.flush()
flush(g) == [g |-> [g EXCEPT !.stream = <<>>], result |-> concatBuffers(g.stream)]

Flush ==
  /\ pc = "enc"
  /\ ret' = [op |-> "flush", st |-> "ok", out |-> flush(Enc).result,
             msg |-> "", val |-> Undefined]
  /\ stream' = flush(Enc).g.stream
  /\ arg' = [cur |-> <<>>, prev |-> arg.cur]
  /\ UNCHANGED <<heap, opts, detectLoops, bs, tagged, pc>>

\* for(const o of objs) { this.pushAny(o); }: the Encoder after the loop, and
\* the log of the calls made
RECURSIVE _encodeAll(_, _, _)
_encodeAll(H, gl, objs) ==
  IF objs = <<>> \/ gl.g.err # "" THEN gl
  ELSE \* bound once: the Encoder after this call
       CHOOSE r \in {_encodeAll(H, [g |-> g, log |-> Append(gl.log, LogEntry(Head(objs), g))],
                                Tail(objs)) :
                       g \in {pushAny(H, gl.g, Head(objs), MaxDepth)}} : TRUE

\* enc._encodeAll(objs): the loop, then return this.flush()
EncodeAll(objs) ==
  /\ pc = "enc"
  /\ Len(arg.cur) + Len(objs) <= MaxPushes
  /\ \E gl \in {_encodeAll(heap, [g |-> Enc, log |-> arg.cur], objs)} :
       /\ detectLoops' = gl.g.dl
       /\ IF gl.g.err = ""
          THEN /\ ret' = [op |-> "_encodeAll", st |-> "ok",
                          out |-> flush(gl.g).result, msg |-> "",
                          val |-> objs[Len(objs)]]
               /\ stream' = flush(gl.g).g.stream
               /\ arg' = [cur |-> <<>>, prev |-> gl.log]
          ELSE /\ ret' = [op |-> "_encodeAll", st |-> "throw", out |-> <<>>,
                          msg |-> gl.g.err, val |-> gl.log[Len(gl.log)].v]
               /\ stream' = gl.g.stream
               /\ arg' = [cur |-> gl.log, prev |-> <<>>]
  /\ UNCHANGED <<heap, opts, bs, tagged, pc>>

\* enc.removeLoopDetectors()
RemoveLoopDetectors ==
  /\ pc = "enc"
  /\ IF ~detectLoops.on
     THEN /\ ret' = [NoRet EXCEPT !.op = "removeLoopDetectors", !.st = "false"]
          /\ UNCHANGED detectLoops
     ELSE /\ ret' = [NoRet EXCEPT !.op = "removeLoopDetectors", !.st = "true"]
          /\ detectLoops' = [on |-> TRUE, has |-> {}]
  /\ UNCHANGED <<heap, opts, stream, arg, bs, tagged, pc>>

NextEnc ==
  \/ \E v \in Roots(heap) : PushAny(v)
  \/ Flush
  \/ \E objs \in RootLists(heap) : EncodeAll(objs)
  \/ RemoveLoopDetectors

SpecEnc == InitEnc /\ [][NextEnc]_vars

\* the bytes of v alone, from a new Encoder with the same options
encode(H, o, v) == flush(pushAny(H, NewEncoder(o), v, MaxDepth)).result

RECURSIVE EncodeEach(_, _, _)
EncodeEach(H, o, log) ==
  IF log = <<>> THEN <<>>
  ELSE encode(H, o, Head(log).v) \o EncodeEach(H, o, Tail(log))

AllOk(log) == \A i \in 1..Len(log) : log[i].ok

OkOnly(log) == Filter(log, {i \in 1..Len(log) : log[i].ok}, 1)

Returned == ret.op \in {"flush", "_encodeAll"} /\ ret.st = "ok"

\* C3: the bytes returned by _encodeAll, or by flush after pushAny calls that
\* all returned, are the encodings of the values one after the other in the
\* order of the calls.
C3_ConcatInPushOrder ==
  (Returned /\ AllOk(arg.prev)) => ret.out = EncodeEach(heap, opts, arg.prev)

\* C3 witness: _encodeAll(["a", [1, 2]]) has returned 61 61 82 01 02.
C3_Witness ==
  /\ Returned
  /\ ret.op = "_encodeAll"
  /\ Len(arg.prev) = 2
  /\ AllOk(arg.prev)
  /\ ret.out = <<97, 97, 130, 1, 2>>

\* C4: with detectLoops on, pushing a value that reaches itself throws
\* 'Loop detected while CBOR encoding', it does not run out of stack.
C4_LoopDetected ==
  (ret.op \in {"pushAny", "_encodeAll"} /\ detectLoops.on /\ HasCycle(heap, ret.val))
    => (ret.st = "throw" /\ ret.msg = LOOP_MSG)

\* C4 witness: the Map whose value is an array holding the Map was pushed on
\* an Encoder that had seen nothing; the throw came after a1 61 61 81.
C4_Witness ==
  /\ ret.op = "pushAny"
  /\ ret.st = "throw"
  /\ ret.msg = LOOP_MSG
  /\ heap = HeapCyclic
  /\ ret.val = Ref(2)
  /\ detectLoops.has = {2, 3}
  /\ concatBuffers(stream) = <<161, 97, 97, 129>>

\* C5: with detectLoops on, the detector is empty whenever a top-level
\* pushAny or _encodeAll has returned.
C5_DetectorEmptyAfterEncode ==
  (ret.op \in {"pushAny", "_encodeAll"} /\ ret.st = "ok" /\ detectLoops.on)
    => detectLoops.has = {}

\* C6: what flush returns holds the bytes of the pushAny calls that returned,
\* and none of a call that threw.
C6_FailedBytesDiscarded ==
  (ret.op = "flush" /\ ret.st = "ok") => ret.out = EncodeEach(heap, opts, OkOnly(arg.prev))

-----------------------------------------------------------------------------
(* lib/utils.js: the input stream and the parsers of heads and floats *)

\* what decoding yields besides the values above
Bytes(data) == [t |-> "bytes", data |-> data]
Arr(items) == [t |-> "array", items |-> items]
MapV(keys, items) == [t |-> "map", keys |-> keys, items |-> items]
SetV(items) == [t |-> "set", items |-> items]
SimpleV(n) == [t |-> "simple", value |-> n]
SYMS_NULL == [t |-> "symbol", name |-> "NULL"]
SYMS_UNDEFINED == [t |-> "symbol", name |-> "UNDEFINED"]
SYMS_BREAK == [t |-> "symbol", name |-> "BREAK"]

NaN == Flt(<<127, 248, 0, 0, 0, 0, 0, 0>>)
Infinity(neg) == Flt(<<IF neg THEN 255 ELSE 127, 240, 0, 0, 0, 0, 0, 0>>)

\* new BufferStream({input})
BufferStream(input) == [bytes |-> input, index |-> 0]

\* get length()
length(b) == Len(b.bytes) - b.index

read_emptyView(b, count) ==
  LET n == IF NLt(NOf(length(b)), count) THEN length(b) ELSE ToInt(count) IN
  [b |-> [b EXCEPT !.index = @ + n], null |-> FALSE,
   view |-> SubSeq(b.bytes, b.index + 1, b.index + n)]

\* read(count), count a magnitude: the stream after it, and the view or null
read_unclamped(b, count) ==
  LET n == ToInt(count) IN
  [b |-> [b EXCEPT !.index = @ + n], null |-> n = 0,
   view |-> [i \in 1..n |-> IF b.index + i <= Len(b.bytes)
                            THEN b.bytes[b.index + i] ELSE 255]]

read(b, count) ==
  LET n == IF NLt(NOf(length(b)), count) THEN length(b) ELSE ToInt(count) IN
  IF n = 0 THEN [b |-> b, null |-> TRUE, view |-> <<>>]
  ELSE [b |-> [b EXCEPT !.index = @ + n], null |-> FALSE,
        view |-> SubSeq(b.bytes, b.index + 1, b.index + n)]

\* bytes.length > this.index throws; else the index goes back by the length
unshift(b, bytes) ==
  IF Len(bytes) > b.index THEN [b |-> b, err |-> "Cannot rewind that far."]
  ELSE [b |-> [b EXCEPT !.index = @ - Len(bytes)], err |-> ""]

\* BigInt(`0x${hex.encode(buf)}`)
bufferToBigInt(buf) == BigI(FALSE, Norm(buf))

INVALID_UTF8_MSG == "The encoded data was not valid for encoding utf-8"

\* the UTF-16 code units of a code point
UnitsOfCodePoint(c) ==
  IF c < 65536 THEN <<c>>
  ELSE <<55296 + ((c - 65536) \div 1024), 56320 + ((c - 65536) % 1024)>>

\* td.decode(buf) with fatal: true: the string, or a throw on a byte sequence
\* that is not UTF-8
RECURSIVE utf8Decode(_, _)
utf8Decode(s, acc) ==
  IF s = <<>> THEN [err |-> "", units |-> acc]
  ELSE
    LET bad == [err |-> INVALID_UTF8_MSG, units |-> <<>>]
        n == CASE s[1] < 128 -> 1
               [] s[1] \in 194..223 -> 2
               [] s[1] \in 224..239 -> 3
               [] s[1] \in 240..244 -> 4
               [] OTHER -> 0
    IN  IF n = 0 \/ Len(s) < n THEN bad
        ELSE IF \E i \in 2..n : s[i] \notin 128..191 THEN bad
        ELSE
          LET c == CASE n = 1 -> s[1]
                     [] n = 2 -> (s[1] - 192) * 64 + (s[2] - 128)
                     [] n = 3 -> (s[1] - 224) * 4096 + (s[2] - 128) * 64 + (s[3] - 128)
                     [] n = 4 -> (s[1] - 240) * 262144 + (s[2] - 128) * 4096
                                   + (s[3] - 128) * 64 + (s[4] - 128)
          IN  IF n = 3 /\ (c < 2048 \/ c \in 55296..57343) THEN bad
              ELSE IF n = 4 /\ (c < 65536 \/ c > 1114111) THEN bad
              ELSE utf8Decode(SubSeq(s, n + 1, Len(s)), acc \o UnitsOfCodePoint(c))

stringFromUtf8Bytes(buf) == utf8Decode(buf, <<>>)

\* the magnitude written with the bits b
MagOfBits(b) == Norm(BytesOfBits(Zeros((8 - (Len(b) % 8)) % 8) \o b))

\* the number sign * m * 2^e for the integer m written with the bits mbits:
\* a "number" when it is an integer, else the double that holds it
FloatOf(neg, mbits, e) ==
  LET sig == Norm(mbits)
      odd == StripTrailingZeros(sig)
      e2 == e + (Len(sig) - Len(odd))
  IN  IF sig = <<>> THEN Num(neg, <<>>)
      ELSE IF e2 >= 0 THEN Num(neg, MagOfBits(odd \o Zeros(e2)))
      ELSE Flt(BytesOfBits(<<IF neg THEN 1 ELSE 0>>
                             \o BitsOf(e2 + Len(odd) - 1 + 1023, 11)
                             \o FitRight(Tail(odd), 52)))

\* the IEEE-754 value of buf with the given field widths
IeeeValue(buf, expBits, bias, mantBits) ==
  LET bits == BitsOfBytes(buf)
      neg == bits[1] = 1
      exp == BitsVal(SubSeq(bits, 2, 1 + expBits))
      mant == SubSeq(bits, 2 + expBits, 1 + expBits + mantBits)
  IN  IF exp = 2 ^ expBits - 1
        THEN (IF Norm(mant) = <<>> THEN Infinity(neg) ELSE NaN)
      ELSE IF exp = 0 /\ expBits = 11 /\ Norm(mant) # <<>> THEN Flt(buf)
      ELSE IF exp = 0 THEN FloatOf(neg, mant, 1 - bias - mantBits)
      ELSE FloatOf(neg, <<1>> \o mant, exp - bias - mantBits)

\* sign * 2^-24 * mant, sign * (mant ? NaN : Infinity),
\* sign * 2^(exp - 25) * (1024 + mant)
parseHalf(buf) ==
  LET neg == (buf[1] \div 128) = 1
      exp == (buf[1] % 128) \div 4
      mant == (buf[1] % 4) * 256 + buf[2]
  IN  IF exp = 0 THEN FloatOf(neg, BitsOf(mant, 10), -24)
      ELSE IF exp = 31 THEN (IF mant # 0 THEN NaN ELSE Infinity(neg))
      ELSE FloatOf(neg, BitsOf(1024 + mant, 11), exp - 25)

parseCBORfloat(buf) ==
  CASE Len(buf) = 2 -> parseHalf(buf)
    [] Len(buf) = 4 -> IeeeValue(buf, 8, 127, 23)
    [] Len(buf) = 8 -> IeeeValue(buf, 11, 1023, 52)

\* getUint8, getUint16, getUint32; for eight bytes the high word f decides
\* between a number and a BigInt
parseCBORint_inclusive(ai, buf) ==
  IF ai = NUMBYTES_EIGHT /\ NLe(MAX_SAFE_HIGH, Norm(SubSeq(buf, 1, 4)))
  THEN BigI(FALSE, Norm(buf))
  ELSE Num(FALSE, Norm(buf))

parseCBORint(ai, buf) ==
  IF ai = NUMBYTES_EIGHT /\ NLt(MAX_SAFE_HIGH, Norm(SubSeq(buf, 1, 4)))
  THEN BigI(FALSE, Norm(buf))
  ELSE Num(FALSE, Norm(buf))

-----------------------------------------------------------------------------
(* lib/simple.js *)

INVALID_BREAK_MSG == "Invalid BREAK"

\* Simple.decode(val, has_parent, parent_indefinite); val is -1 for BREAK
Simple_decode_anywhere(val, has_parent, parent_indefinite) ==
  CASE val = SIMPLE_FALSE -> [err |-> "", val |-> Bool(FALSE)]
    [] val = SIMPLE_TRUE -> [err |-> "", val |-> Bool(TRUE)]
    [] val = SIMPLE_NULL ->
         [err |-> "", val |-> IF has_parent THEN Null ELSE SYMS_NULL]
    [] val = SIMPLE_UNDEFINED ->
         [err |-> "", val |-> IF has_parent THEN Undefined ELSE SYMS_UNDEFINED]
    [] val = -1 -> [err |-> "", val |-> SYMS_BREAK]
    [] OTHER -> [err |-> "", val |-> SimpleV(val)]

Simple_decode(val, has_parent, parent_indefinite) ==
  CASE val = SIMPLE_FALSE -> [err |-> "", val |-> Bool(FALSE)]
    [] val = SIMPLE_TRUE -> [err |-> "", val |-> Bool(TRUE)]
    [] val = SIMPLE_NULL ->
         [err |-> "", val |-> IF has_parent THEN Null ELSE SYMS_NULL]
    [] val = SIMPLE_UNDEFINED ->
         [err |-> "", val |-> IF has_parent THEN Undefined ELSE SYMS_UNDEFINED]
    [] val = -1 ->
         IF ~has_parent \/ ~parent_indefinite
         THEN [err |-> INVALID_BREAK_MSG, val |-> Undefined]
         ELSE [err |-> "", val |-> SYMS_BREAK]
    [] OTHER -> [err |-> "", val |-> SimpleV(val)]

-----------------------------------------------------------------------------
(* lib/tagged.js.  A tag number is a magnitude.  An interpreter is named by  *)
(* a string; what it throws is a value: an Error is [t, message].            *)

\* new Tagged(tag, value, err)
Tagged(tag, value, err) ==
  [t |-> "tagged", tag |-> tag, value |-> value, err |-> err]

Error(message) == [t |-> "Error", message |-> message]
Message(text) == [t |-> "message", text |-> text]

\* new TypedClass(ab)
TypedArray(class, data) == [t |-> "typedarray", class |-> class, data |-> data]

\* the classes of TYPED_ARRAY_TAGS looked at, with their element sizes
TYPED_ARRAY_TAGS ==
  (NOf(64) :> "Uint8Array") @@ (NOf(65) :> "Uint16Array")
    @@ (NOf(69) :> "Uint16Array") @@ (NOf(72) :> "Int8Array")

\* sz = 2 ** (float + (tag & 3)); little = tag & 4
ElementSize(tag) == 2 ^ (((ToInt(tag) \div 16) % 2) + (ToInt(tag) % 4))
IsLittle(tag) == (ToInt(tag) \div 4) % 2 = 1

Reverse(s) == [i \in 1..Len(s) |-> s[Len(s) + 1 - i]]

\* swapEndian(ab, size, 0, byteLength): each element is read little-endian
\* and written big-endian in place; a read past the end of ab throws with the
\* elements before it already swapped
RECURSIVE swapEndian(_, _, _)
swapEndian(ab, size, offset) ==
  IF offset >= Len(ab) THEN [ab |-> ab, err |-> ""]
  ELSE IF offset + size > Len(ab)
    THEN [ab |-> ab, err |-> "Offset is outside the bounds of the DataView"]
  ELSE swapEndian(SubSeq(ab, 1, offset)
                    \o Reverse(SubSeq(ab, offset + 1, offset + size))
                    \o SubSeq(ab, offset + size + 1, Len(ab)),
                  size, offset + size)

\* the outcome of f.call(this, this.value): self is this after the call,
\* error what was thrown when thrown holds, val what was returned otherwise
Returns(self, val) ==
  [self |-> self, thrown |-> FALSE, error |-> Undefined, val |-> val]
Throws(self, error) ==
  [self |-> self, thrown |-> TRUE, error |-> error, val |-> Undefined]

NOT_A_BUFFER_MSG == "Cannot read properties of undefined (reading 'slice')"

\* Tagged.prototype._toTypedArray on a host of the given endianness
_toTypedArray(self, isBigEndian) ==
  LET val == self.value
      sz == ElementSize(self.tag)
      swap == (~IsLittle(self.tag)) # isBigEndian /\ sz > 1
  IN  IF val.t # "bytes" THEN Throws(self, Error(NOT_A_BUFFER_MSG))
      ELSE
        LET sw == IF swap THEN swapEndian(val.data, sz, 0)
                  ELSE [ab |-> val.data, err |-> ""]
            after == [self EXCEPT !.value = Bytes(sw.ab)]
        IN  IF sw.err # "" THEN Throws(after, Error(sw.err))
            ELSE IF Len(sw.ab) % sz # 0
              THEN Throws(after, Error("byte length of typed array should be a multiple of its element size"))
            ELSE Returns(after, TypedArray(TYPED_ARRAY_TAGS[self.tag], sw.ab))

\* utils.bufferToBignumber is not an export of utils.js (bufferToBigNumber is)
_tag_2(self) ==
  Throws(self, Error("utils.bufferToBignumber is not a function"))

_tag_3(self) ==
  Throws(self, Error("utils.bufferToBignumber is not a function"))

RECURSIVE Dedupe(_, _)
Dedupe(items, acc) ==
  IF items = <<>> THEN acc
  ELSE Dedupe(Tail(items),
              IF \E i \in 1..Len(acc) : acc[i] = Head(items) THEN acc
              ELSE Append(acc, Head(items)))

\* new Set(v)
_tag_258(self) ==
  IF self.value.t = "array" THEN Returns(self, SetV(Dedupe(self.value.items, <<>>)))
  ELSE IF self.value.t = "string"
    THEN Returns(self, SetV(Dedupe([i \in 1..Len(self.value.units) |->
                                      Str(<<self.value.units[i]>>)], <<>>)))
  ELSE IF self.value.t \in {"null", "undefined"} THEN Returns(self, SetV(<<>>))
  ELSE Throws(self, Error("object is not iterable"))

\* the code units of a-z, A-Z, 0-9
AlphaNumeric == (97..122) \cup (65..90) \cup (48..57)

\* [a-zA-Z0-9_-] and [a-zA-Z0-9+/]
Base64urlClass == AlphaNumeric \cup {95, 45}
Base64Class == AlphaNumeric \cup {43, 47}

EQUALS == 61

\* 'AQgw' and 'AEIMQUYcgkosw048'
AQgw == {65, 81, 103, 119}
AEIMQUYcgkosw048 ==
  {65, 69, 73, 77, 81, 85, 89, 99, 103, 107, 111, 115, 119, 48, 52, 56}

\* the length of the longest tail of u made of '=' only
RECURSIVE TrailingEquals(_)
TrailingEquals(u) ==
  IF u = <<>> \/ u[Len(u)] # EQUALS THEN 0
  ELSE 1 + TrailingEquals(SubSeq(u, 1, Len(u) - 1))

\* v.match(/^[a-zA-Z0-9_-]+$/)
MatchBase64url(u) == u # <<>> /\ \A i \in 1..Len(u) : u[i] \in Base64urlClass

\* v.match(/^[a-zA-Z0-9+/]+(={0,2})$/): m[1] is the tail of '='
MatchBase64(u) ==
  /\ TrailingEquals(u) <= 2
  /\ Len(u) > TrailingEquals(u)
  /\ \A i \in 1..(Len(u) - TrailingEquals(u)) : u[i] \in Base64Class

NOT_A_STRING_MSG == "v.match is not a function"

\* base64url
_tag_33(self) ==
  LET v == self.value IN
  IF v.t # "string" THEN Throws(self, Error(NOT_A_STRING_MSG))
  ELSE IF ~MatchBase64url(v.units)
    THEN Throws(self, Error("Invalid base64url characters"))
  ELSE IF Len(v.units) % 4 = 1
    THEN Throws(self, Error("Invalid base64url length"))
  ELSE IF Len(v.units) % 4 = 2 /\ v.units[Len(v.units)] \notin AQgw
    THEN Throws(self, Error("Invalid base64 padding"))
  ELSE IF Len(v.units) % 4 = 3 /\ v.units[Len(v.units)] \notin AEIMQUYcgkosw048
    THEN Throws(self, Error("Invalid base64 padding"))
  ELSE Returns(self, self)

\* base64
_tag_34(self) ==
  LET v == self.value IN
  IF v.t # "string" THEN Throws(self, Error(NOT_A_STRING_MSG))
  ELSE IF ~MatchBase64(v.units)
    THEN Throws(self, Error("Invalid base64url characters"))
  ELSE IF Len(v.units) % 4 # 0
    THEN Throws(self, Error("Invalid base64url length"))
  ELSE IF TrailingEquals(v.units) = 1 /\ v.units[Len(v.units) - 1] \notin AQgw
    THEN Throws(self, Error("Invalid base64 padding"))
  ELSE IF TrailingEquals(v.units) = 2
            /\ v.units[Len(v.units) - 2] \notin AEIMQUYcgkosw048
    THEN Throws(self, Error("Invalid base64 padding"))
  ELSE Returns(self, self)

\* the static _tag_N methods looked at
Tagged_tag ==
  (NOf(2) :> "_tag_2") @@ (NOf(3) :> "_tag_3") @@ (NOf(258) :> "_tag_258")
    @@ (NOf(33) :> "_tag_33") @@ (NOf(34) :> "_tag_34")

\* f.call(tg, tg.value) for the interpreter named f
call(f, tg, isBigEndian) ==
  CASE f = "_tag_2" -> _tag_2(tg)
    [] f = "_tag_3" -> _tag_3(tg)
    [] f = "_tag_258" -> _tag_258(tg)
    [] f = "_tag_33" -> _tag_33(tg)
    [] f = "_tag_34" -> _tag_34(tg)
    [] f = "_toTypedArray" -> _toTypedArray(tg, isBigEndian)
    \* the bigint versions the decoder installs for tags 2 and 3
    [] f = "bigint_2" ->
         IF tg.value.t = "bytes" THEN Returns(tg, bufferToBigInt(tg.value.data))
         ELSE Throws(tg, Error("Cannot convert to a BigInt"))
    [] f = "bigint_3" ->
         IF tg.value.t = "bytes"
         THEN Returns(tg, BigI(TRUE, NInc(Norm(tg.value.data))))
         ELSE Throws(tg, Error("Cannot convert to a BigInt"))
    \* converters of the caller
    [] f = "user_value" -> Returns(tg, tg.value)
    [] f = "user_throws" -> Throws(tg, Error("boom"))
    [] f = "user_throws_empty" -> Throws(tg, Error(""))
    [] f = "user_throws_null" -> Throws(tg, Null)

\* typeof f === 'function'
IsFunction(f) == f \notin {"undefined", "null"}

\* the interpreter convert selects, "undefined" when there is none
Selected(tg, converters) ==
  LET f == IF tg.tag \in DOMAIN converters THEN converters[tg.tag]
           ELSE "undefined"
  IN  IF IsFunction(f) THEN f
      ELSE IF tg.tag \in DOMAIN Tagged_tag THEN Tagged_tag[tg.tag]
      ELSE IF tg.tag \in DOMAIN TYPED_ARRAY_TAGS THEN "_toTypedArray"
      ELSE "undefined"

\* error && error.message && (error.message.length > 0)
HasMessage(error) == error.t = "Error" /\ error.message # ""

\* catch(error): this.err is error.message when there is one, else error;
\* r is the outcome of the call in the try block
catch(r) ==
  IF ~r.thrown THEN r
  ELSE Returns([r.self EXCEPT !.err = IF HasMessage(r.error)
                                      THEN Message(r.error.message)
                                      ELSE r.error],
               [r.self EXCEPT !.err = IF HasMessage(r.error)
                                      THEN Message(r.error.message)
                                      ELSE r.error])

\* convert(converters): self is this after the call
convert(tg, converters, isBigEndian) ==
  IF ~IsFunction(Selected(tg, converters)) THEN Returns(tg, tg)
  ELSE catch(call(Selected(tg, converters), tg, isBigEndian))

-----------------------------------------------------------------------------
(* The decoder (lib/decoder.js), after sections 4.2 and 4.5 of the           *)
(* specification.  A result is [b, err, val, mt]: the stream after the item, *)
(* the message of the error raised ("" when none), the item, its major type. *)

INSUFFICIENT_MSG == "Insufficient data"
NOT_IMPLEMENTED_MSG == "Additional info not implemented"
INVALID_INDEFINITE_MSG == "Invalid indefinite encoding"
INVALID_MAJOR_MSG == "Invalid major type in indefinite encoding"
INVALID_MAP_MSG == "Invalid map length"
INVALID_TWO_BYTE_MSG == "Invalid two-byte encoding of simple value"
UNEXPECTED_MSG == "Unexpected data"

Fail(b, msg) == [b |-> b, err |-> msg, val |-> Undefined, mt |-> -1]
Item(b, val, mt) == [b |-> b, err |-> "", val |-> val, mt |-> mt]

\* the frame an item is decoded in
NoParent == [has |-> FALSE, mt |-> -1, indefinite |-> FALSE]
Parent(mt, indefinite) == [has |-> TRUE, mt |-> mt, indefinite |-> indefinite]

\* the interpreters the decoder passes to convert
DecoderTags == (NOf(2) :> "bigint_2") @@ (NOf(3) :> "bigint_3")

\* const buf = read(count); all of the bytes or 'Insufficient data'
checked(r, count) ==
  IF r.null \/ NOf(Len(r.view)) # count
  THEN [b |-> r.b, err |-> INSUFFICIENT_MSG, view |-> <<>>]
  ELSE [b |-> r.b, err |-> "", view |-> r.view]

take(b, count) == checked(read(b, count), count)

\* a head: [b, err, mt, ai, val, buf, indefinite]; val is the argument
NoHead(b) ==
  [b |-> b, err |-> "", mt |-> -1, ai |-> -1, val |-> Undefined,
   buf |-> <<>>, indefinite |-> FALSE]

\* the head whose first byte is known, given its tail t when it has one
headTail(h, t) ==
  IF t.err # "" THEN [h EXCEPT !.b = t.b, !.err = t.err]
  ELSE [h EXCEPT !.b = t.b, !.buf = t.view, !.val = parseCBORint(h.ai, t.view)]

headOf(h) ==
  CASE h.ai < NUMBYTES_ONE -> [h EXCEPT !.val = Num(FALSE, NOf(h.ai))]
    [] h.ai \in NUMBYTES_ONE..NUMBYTES_EIGHT ->
         headTail(h, take(h.b, NOf(2 ^ (h.ai - NUMBYTES_ONE))))
    [] h.ai = NUMBYTES_INDEFINITE ->
         IF h.mt \in {MT_POS_INT, MT_NEG_INT, MT_TAG}
         THEN [h EXCEPT !.err = INVALID_INDEFINITE_MSG]
         ELSE [h EXCEPT !.indefinite = TRUE]
    [] OTHER -> [h EXCEPT !.err = NOT_IMPLEMENTED_MSG]

firstByte(r) ==
  IF r.err # "" THEN [NoHead(r.b) EXCEPT !.err = r.err]
  ELSE headOf([NoHead(r.b) EXCEPT !.mt = r.view[1] \div 32,
                                  !.ai = r.view[1] % 32])

\* read_head
readHead(b) == firstByte(take(b, NOf(1)))

RECURSIVE decodeItem(_, _)
RECURSIVE decodeItems(_, _, _, _)
RECURSIVE decodeUntilBreak(_, _, _)
RECURSIVE decodeChunks(_, _, _)

\* r is the item just decoded in the frame parent, after the items acc
nextOfItems(r, parent, count, acc) ==
  IF r.err # "" THEN r
  ELSE decodeItems(r.b, parent, NDec(count), Append(acc, r.val))

\* count items in the frame parent
decodeItems(b, parent, count, acc) ==
  IF count = <<>> THEN Item(b, acc, parent.mt)
  ELSE nextOfItems(decodeItem(b, parent), parent, count, acc)

nextUntilBreak(r, parent, acc) ==
  IF r.err # "" THEN r
  ELSE IF r.val = SYMS_BREAK THEN Item(r.b, acc, parent.mt)
  ELSE decodeUntilBreak(r.b, parent, Append(acc, r.val))

\* items in the indefinite frame parent up to its BREAK
decodeUntilBreak(b, parent, acc) ==
  nextUntilBreak(decodeItem(b, parent), parent, acc)

nextChunk_anyType(r, parent, acc) ==
  IF r.err # "" THEN r
  ELSE IF r.val = SYMS_BREAK THEN Item(r.b, acc, parent.mt)
  ELSE IF r.mt # parent.mt THEN decodeChunks(r.b, parent, acc)
  ELSE decodeChunks(r.b, parent,
                    acc \o (IF parent.mt = MT_BYTE_STRING THEN r.val.data
                            ELSE r.val.units))

\* each chunk is a definite string of the major type of parent; acc is the
\* payload so far
nextChunk(r, parent, acc) ==
  IF r.err # "" THEN r
  ELSE IF r.val = SYMS_BREAK THEN Item(r.b, acc, parent.mt)
  ELSE IF r.mt # parent.mt THEN Fail(r.b, INVALID_MAJOR_MSG)
  ELSE decodeChunks(r.b, parent,
                    acc \o (IF parent.mt = MT_BYTE_STRING THEN r.val.data
                            ELSE r.val.units))

\* the chunks of an indefinite string up to its BREAK
decodeChunks(b, parent, acc) == nextChunk(decodeItem(b, parent), parent, acc)

Evens(s) == [i \in 1..(Len(s) \div 2) |-> s[2 * i]]
Odds(s) == [i \in 1..(Len(s) \div 2) |-> s[2 * i - 1]]

\* 2 * n for a magnitude n
Twice(n) == MagOfBits(SigBits(n) \o <<0>>)

\* the text of the payload u, which is UTF-8 or the decode fails
textOf(b, u) ==
  IF u.err # "" THEN Fail(b, u.err) ELSE Item(b, Str(u.units), MT_UTF8_STRING)

\* a definite string from its payload t
stringOf(t, mt) ==
  IF t.err # "" THEN Fail(t.b, t.err)
  ELSE IF mt = MT_BYTE_STRING THEN Item(t.b, Bytes(t.view), mt)
  ELSE textOf(t.b, stringFromUtf8Bytes(t.view))

emptyString(b, mt) ==
  Item(b, IF mt = MT_BYTE_STRING THEN Bytes(<<>>) ELSE Str(<<>>), mt)

\* an indefinite string from its payload r
joined(r, mt) ==
  IF r.err # "" THEN r
  ELSE Item(r.b, IF mt = MT_BYTE_STRING THEN Bytes(r.val) ELSE Str(r.val), mt)

arrayOf(r) == IF r.err # "" THEN r ELSE Item(r.b, Arr(r.val), MT_ARRAY)

mapOf(r) ==
  IF r.err # "" THEN r
  ELSE IF Len(r.val) % 2 # 0 THEN Fail(r.b, INVALID_MAP_MSG)
  ELSE Item(r.b, MapV(Odds(r.val), Evens(r.val)), MT_MAP)

\* the host of the decoder stores the low byte first
HostIsBigEndian == FALSE

taggedOf(tag, r) ==
  IF r.err # "" THEN r
  ELSE Item(r.b, convert(Tagged(tag, r.val, Undefined), DecoderTags,
                         HostIsBigEndian).val, MT_TAG)

simpleOf(b, r) ==
  IF r.err # "" THEN Fail(b, r.err) ELSE Item(b, r.val, MT_SIMPLE_FLOAT)

\* the item whose head is h
itemOf(h, parent) ==
  IF h.err # "" THEN Fail(h.b, h.err)
  ELSE IF /\ parent.has /\ parent.indefinite
          /\ parent.mt \in {MT_BYTE_STRING, MT_UTF8_STRING}
          /\ h.indefinite /\ h.mt = parent.mt
    THEN Fail(h.b, INVALID_INDEFINITE_MSG)
  ELSE
    CASE h.mt = MT_POS_INT -> Item(h.b, h.val, h.mt)
      [] h.mt = MT_NEG_INT ->
           Item(h.b, [h.val EXCEPT !.neg = TRUE, !.mag = NInc(@)], h.mt)
      [] h.mt \in {MT_BYTE_STRING, MT_UTF8_STRING} ->
           IF h.indefinite
           THEN joined(decodeChunks(h.b, Parent(h.mt, TRUE), <<>>), h.mt)
           ELSE IF h.val.mag = <<>> THEN emptyString(h.b, h.mt)
           ELSE stringOf(take(h.b, h.val.mag), h.mt)
      [] h.mt = MT_ARRAY ->
           IF h.indefinite
           THEN arrayOf(decodeUntilBreak(h.b, Parent(h.mt, TRUE), <<>>))
           ELSE arrayOf(decodeItems(h.b, Parent(h.mt, FALSE), h.val.mag, <<>>))
      [] h.mt = MT_MAP ->
           IF h.indefinite
           THEN mapOf(decodeUntilBreak(h.b, Parent(h.mt, TRUE), <<>>))
           ELSE mapOf(decodeItems(h.b, Parent(h.mt, FALSE), Twice(h.val.mag),
                                  <<>>))
      [] h.mt = MT_TAG ->
           taggedOf(h.val.mag, decodeItem(h.b, Parent(h.mt, FALSE)))
      [] h.mt = MT_SIMPLE_FLOAT ->
           IF h.ai \in {NUMBYTES_TWO, NUMBYTES_FOUR, NUMBYTES_EIGHT}
           THEN Item(h.b, parseCBORfloat(h.buf), h.mt)
           ELSE IF h.ai = NUMBYTES_ONE /\ h.buf[1] < 32
             THEN Fail(h.b, INVALID_TWO_BYTE_MSG)
           ELSE simpleOf(h.b,
                         Simple_decode(IF h.indefinite THEN -1
                                       ELSE IF h.ai = NUMBYTES_ONE THEN h.buf[1]
                                       ELSE h.ai,
                                       parent.has,
                                       parent.has /\ parent.indefinite))

decodeItem(b, parent) == itemOf(readHead(b), parent)

\* the values that stand for null and undefined given back as themselves
nullcheck(val) ==
  CASE val = SYMS_NULL -> Null
    [] val = SYMS_UNDEFINED -> Undefined
    [] OTHER -> val

\* the item r when the input ends with it
onlyItem(r) ==
  IF r.err # "" THEN r
  ELSE IF length(r.b) > 0 THEN Fail(r.b, UNEXPECTED_MSG)
  ELSE Item(r.b, nullcheck(r.val), r.mt)

\* decode_first_sync(bytes): exactly one item
decodeFirstSync(input) == onlyItem(decodeItem(BufferStream(input), NoParent))

-----------------------------------------------------------------------------
(* SpecDec: decode(input) of one byte string.  arg says how the input was    *)
(* made: the first cut bytes of arg.input, which is either any byte string   *)
(* or an indefinite string of major type arg.mt made of arg.chunks, then of  *)
(* the item arg.bad when there is one.                                       *)

\* the bytes inputs are made of: 00 18 1c 40 41 5f 61 7f 81 9f a1 bf c2 ff
DecAlphabet == {0, 24, 28, 64, 65, 95, 97, 127, 129, 159, 161, 191, 194, 255}

\* the longest input made of any bytes
MaxInput == 3

\* the most chunks of an indefinite string
MaxChunks == 2

SeqsUpTo(S, n) == UNION {[1..k -> S] : k \in 0..n}

\* inputs after RFC 8949 appendix A and the failure vectors
Vectors ==
  {<<27, 0, 31, 255, 255, 255, 255, 255, 255>>,
   <<27, 255, 255, 255, 255, 255, 255, 255, 255>>,
   <<59, 255, 255, 255, 255, 255, 255, 255, 255>>,
   <<25, 3, 232>>, <<26, 0, 15, 66, 64>>, <<56, 99>>,
   <<249, 62, 0>>, <<250, 71, 195, 80, 0>>,
   <<251, 63, 241, 153, 153, 153, 153, 153, 154>>,
   <<244>>, <<245>>, <<246>>, <<247>>, <<240>>, <<248, 255>>, <<248, 24>>,
   <<68, 1, 2, 3, 4>>, <<100, 73, 69, 84, 70>>, <<98, 195, 188>>,
   <<100, 240, 144, 133, 145>>, <<98, 195, 40>>,
   <<131, 1, 2, 3>>, <<131, 1, 130, 2, 3, 130, 4, 5>>,
   <<162, 1, 2, 3, 4>>, <<162, 97, 97, 1, 97, 98, 130, 2, 3>>,
   <<159, 1, 130, 2, 3, 159, 4, 5, 255, 255>>,
   <<191, 97, 97, 1, 97, 98, 159, 2, 3, 255, 255>>,
   <<194, 73, 1, 0, 0, 0, 0, 0, 0, 0, 0>>, <<195, 65, 0>>,
   <<193, 26, 81, 75, 103, 176>>, <<217, 1, 2, 130, 1, 1>>,
   <<95, 66, 1, 2, 67, 3, 4, 5, 255>>,
   <<127, 101, 115, 116, 114, 101, 97, 100, 109, 105, 110, 103, 255>>,
   <<130, 0, 255>>, <<161, 0, 255>>, <<191, 0, 255>>, <<159, 129, 255, 255>>,
   <<159, 194, 255>>, <<191, 161, 255>>, <<159, 0, 255>>, <<191, 0, 0, 255>>,
   <<28>>, <<95, 64, 0>>, <<161, 0>>}

Payloads == {<<>>, <<0>>, <<65>>, <<97, 66>>}
ChunkLists == SeqsUpTo(Payloads, MaxChunks)

\* the items that are no chunk of an indefinite string of major type mt
BadChildren(mt) ==
  {<<0>>, <<246>>, <<129, 0>>, <<194, 64>>, <<159, 255>>,
   <<mt * 32 + NUMBYTES_INDEFINITE>>,
   IF mt = MT_BYTE_STRING THEN <<96>> ELSE <<64>>,
   IF mt = MT_BYTE_STRING THEN <<97, 65>> ELSE <<65, 65>>,
   IF mt = MT_BYTE_STRING THEN <<127, 255>> ELSE <<95, 255>>}

\* a definite string of major type mt, at most 23 bytes long
Chunk(mt, payload) == <<mt * 32 + Len(payload)>> \o payload

RECURSIVE ChunkBytes(_, _)
ChunkBytes(mt, chunks) ==
  IF chunks = <<>> THEN <<>>
  ELSE Chunk(mt, Head(chunks)) \o ChunkBytes(mt, Tail(chunks))

Indefinite(mt, chunks, bad, rest) ==
  <<mt * 32 + NUMBYTES_INDEFINITE>> \o ChunkBytes(mt, chunks) \o bad \o rest

DecArg(input, cut, mt, chunks, bad) ==
  [input |-> input, cut |-> cut, mt |-> mt, chunks |-> chunks, bad |-> bad]

Whole(w) == DecArg(w, Len(w), -1, <<>>, <<>>)

DecArgs ==
  {Whole(w) : w \in SeqsUpTo(DecAlphabet, MaxInput) \cup Vectors}
    \cup {DecArg(Indefinite(mt, cs, <<>>, <<255>>), 2 + Len(ChunkBytes(mt, cs)),
                 mt, cs, <<>>) :
            mt \in {MT_BYTE_STRING, MT_UTF8_STRING}, cs \in ChunkLists}
    \cup UNION {{DecArg(Indefinite(mt, cs, bad, rest),
                        1 + Len(ChunkBytes(mt, cs)) + Len(bad) + Len(rest),
                        mt, cs, bad) :
                   cs \in ChunkLists, bad \in BadChildren(mt),
                   rest \in {<<>>, <<255>>, <<0, 255>>}} :
                  mt \in {MT_BYTE_STRING, MT_UTF8_STRING}}

\* the inputs that end early: the proper prefixes of the inputs that decode
CutArgs ==
  UNION {{[a EXCEPT !.cut = k] : k \in 0..(Len(a.input) - 1)} :
           a \in {a \in DecArgs : decodeFirstSync(a.input).err = ""}}

InitDec ==
  /\ arg \in DecArgs \cup CutArgs
  /\ bs = BufferStream(SubSeq(arg.input, 1, arg.cut))
  /\ heap = NoHeap
  /\ opts = DefaultOpts
  /\ stream = <<>>
  /\ detectLoops = [on |-> FALSE, has |-> {}]
  /\ ret = NoRet
  /\ tagged = NoTagged
  /\ pc = "decode"

\* decode(input) of lib/main.js: Decoder.decodeFirstSync
DecodeFirstSync ==
  /\ pc = "decode"
  /\ \E r \in {decodeFirstSync(bs.bytes)} :
       /\ bs' = r.b
       /\ ret' = [op |-> "decode", st |-> IF r.err = "" THEN "ok" ELSE "throw",
                  out |-> <<>>, msg |-> r.err, val |-> r.val]
  /\ pc' = "done"
  /\ UNCHANGED <<heap, opts, stream, detectLoops, arg, tagged>>

NextDec == DecodeFirstSync

SpecDec == InitDec /\ [][NextDec]_vars

Decoded == pc = "done" /\ ret.op = "decode"

\* C7: an input that is a proper prefix of an input that decodes makes the
\* decode throw 'Insufficient data' and give no value.
C7_InsufficientData ==
  (Decoded /\ arg.cut < Len(arg.input) /\ decodeFirstSync(arg.input).err = "")
    => (ret.st = "throw" /\ ret.msg = INSUFFICIENT_MSG /\ ret.val = Undefined)

\* C7 witness: a1 00, the map a1 00 00 without its value, has been decoded.
C7_Witness ==
  /\ Decoded
  /\ arg.input = <<161, 0, 0>>
  /\ bs.bytes = <<161, 0>>
  /\ ret.st = "throw"
  /\ ret.msg = INSUFFICIENT_MSG

IsPrefix(p, s) == Len(p) <= Len(s) /\ SubSeq(s, 1, Len(p)) = p

\* what comes before an item at top level, or in a definite array, a definite
\* map (as key, as value) or a tag, these also inside an indefinite container
NoBreakContexts ==
  {<<>>, <<129>>, <<130, 0>>, <<161>>, <<161, 0>>, <<194>>,
   <<159, 129>>, <<159, 194>>, <<191, 161>>}

\* indefinite containers closed by ff, and what they decode to
ClosedByBreak ==
  (<<159, 255>> :> Arr(<<>>)) @@ (<<191, 255>> :> MapV(<<>>, <<>>))
    @@ (<<95, 255>> :> Bytes(<<>>)) @@ (<<127, 255>> :> Str(<<>>))
    @@ (<<159, 0, 255>> :> Arr(<<N_(0)>>))
    @@ (<<191, 0, 0, 255>> :> MapV(<<N_(0)>>, <<N_(0)>>))

\* v holds the BREAK sentinel
RECURSIVE HasBreak(_)
HasBreak(v) ==
  \/ v = SYMS_BREAK
  \/ /\ v.t \in {"array", "set", "map"}
     /\ \E i \in 1..Len(v.items) : HasBreak(v.items[i])
  \/ /\ v.t = "map"
     /\ \E i \in 1..Len(v.keys) : HasBreak(v.keys[i])
  \/ /\ v.t = "tagged"
     /\ HasBreak(v.value)

\* C8: ff where an item is due at top level or in a definite array, map or
\* tag throws 'Invalid BREAK'; ff in an open indefinite container closes it;
\* no decoded value holds the BREAK sentinel.
C8_BreakOnlyInIndefinite ==
  Decoded =>
    /\ (\E c \in NoBreakContexts : IsPrefix(c \o <<255>>, bs.bytes))
         => (ret.st = "throw" /\ ret.msg = INVALID_BREAK_MSG)
    /\ bs.bytes \in DOMAIN ClosedByBreak
         => (ret.st = "ok" /\ ret.val = ClosedByBreak[bs.bytes])
    /\ ret.st = "ok" => ~HasBreak(ret.val)

\* C8 witness: 81 ff, ff as the element of a definite array, has thrown.
C8_Witness ==
  /\ Decoded
  /\ bs.bytes = <<129, 255>>
  /\ ret.st = "throw"
  /\ ret.msg = INVALID_BREAK_MSG

-----------------------------------------------------------------------------
(* SpecRT: lib/main.js, decode(encode(v)) for one value v *)

\* a typed array; arrays, a Map and a plain object over it and each other
HeapRT ==
  <<Obj("Uint8Array", <<>>, <<>>, <<1, 2, 3>>, "none"),
    A_(<<N_(1), Key_a, Null, Bool(TRUE), Num(TRUE, P53)>>),
    Obj("Map", <<N_(1), Key_a>>, <<Ref(2), Ref(1)>>, <<>>, "none"),
    Obj("Object", <<Key_a, Key_b>>, <<Ref(2), BigI(FALSE, <<5>>)>>, <<>>, "none"),
    A_(<<>>),
    A_(<<Ref(3), Ref(4), Ref(5)>>)>>

\* "", "a", "IETF", u-umlaut, U+6C34, U+10151 as a surrogate pair, and a
\* high surrogate alone, which is no text
StrInputs ==
  {Str(u) : u \in {<<>>, <<97>>, <<73, 69, 84, 70>>, <<252>>, <<27700>>,
                   <<55296, 56657>>, <<97, 55296>>}}

BigInputs ==
  {BigI(neg, mag) : neg \in BOOLEAN,
                    mag \in {<<1>>, <<24>>, <<1, 0>>, MAXINT32, P32,
                             MAX_SAFE_INTEGER, P53, NDec(MAXINT64), MAXINT64, P64}}
    \cup {BigI(FALSE, <<>>)}

RTInputs ==
  IntInputs \cup BigInputs \cup StrInputs
    \cup {Bool(TRUE), Bool(FALSE), Null}
    \cup {Ref(i) : i \in DOMAIN HeapRT}

\* no surrogate without its other half
RECURSIVE WellFormed(_)
WellFormed(u) ==
  IF u = <<>> THEN TRUE
  ELSE IF IsHighSurrogate(u[1])
    THEN Len(u) >= 2 /\ IsLowSurrogate(u[2]) /\ WellFormed(SubSeq(u, 3, Len(u)))
  ELSE ~IsLowSurrogate(u[1]) /\ WellFormed(Tail(u))

\* v is built from unsigned integers up to 2^64-1, signed integers down to
\* -2^64, booleans, null, text, byte sequences, and arrays and maps of such
RECURSIVE InDomain(_, _)
InDomain(H, v) ==
  CASE v.t \in {"number", "bigint"} ->
         IF v.neg THEN NLe(v.mag, P64) ELSE NLe(v.mag, MAXINT64)
    [] v.t \in {"boolean", "null"} -> TRUE
    [] v.t = "string" -> WellFormed(v.units)
    [] v.t = "object" ->
         /\ H[v.id].k \in {"Array", "Map", "Object", "Uint8Array"}
         /\ \A i \in 1..Len(H[v.id].items) : InDomain(H, H[v.id].items[i])
         /\ \A i \in 1..Len(H[v.id].keys) : InDomain(H, H[v.id].keys[i])
    [] OTHER -> FALSE

\* v as a tree: what v is equal to when it is found again
RECURSIVE ToTree(_, _)
ToTree(H, v) ==
  IF v.t # "object" THEN v
  ELSE CASE H[v.id].k = "Uint8Array" -> Bytes(H[v.id].data)
         [] H[v.id].k = "Array" ->
              Arr([i \in 1..Len(H[v.id].items) |-> ToTree(H, H[v.id].items[i])])
         [] H[v.id].k \in {"Map", "Object"} ->
              MapV([i \in 1..Len(H[v.id].keys) |-> ToTree(H, H[v.id].keys[i])],
                   [i \in 1..Len(H[v.id].items) |-> ToTree(H, H[v.id].items[i])])

InitRT ==
  /\ heap = HeapRT
  /\ arg \in RTInputs
  /\ opts = DefaultOpts
  /\ stream = <<>>
  /\ detectLoops = [on |-> FALSE, has |-> {}]
  /\ ret = NoRet
  /\ bs = NoBs
  /\ tagged = NoTagged
  /\ pc = "encode"

\* encode(v): new Encoder()._encodeAll([v])
Encode ==
  /\ pc = "encode"
  /\ \E gl \in {_encodeAll(heap, [g |-> NewEncoder(opts), log |-> <<>>], <<arg>>)} :
       IF gl.g.err = ""
       THEN /\ ret' = [op |-> "encode", st |-> "ok", out |-> flush(gl.g).result,
                       msg |-> "", val |-> Undefined]
            /\ bs' = BufferStream(flush(gl.g).result)
            /\ pc' = "decode"
       ELSE /\ ret' = [op |-> "encode", st |-> "throw", out |-> <<>>,
                       msg |-> gl.g.err, val |-> Undefined]
            /\ bs' = bs
            /\ pc' = "done"
  /\ UNCHANGED <<heap, opts, stream, detectLoops, arg, tagged>>

\* decode(bytes) of what encode returned
Decode ==
  /\ pc = "decode"
  /\ \E r \in {decodeFirstSync(bs.bytes)} :
       /\ bs' = r.b
       /\ ret' = [op |-> "decode", st |-> IF r.err = "" THEN "ok" ELSE "throw",
                  out |-> ret.out, msg |-> r.err, val |-> r.val]
  /\ pc' = "done"
  /\ UNCHANGED <<heap, opts, stream, detectLoops, arg, tagged>>

NextRT == Encode \/ Decode

SpecRT == InitRT /\ [][NextRT]_vars

\* C1: for v in the domain of the round trip, decode(encode(v)) is v.
C1_RoundTrip ==
  (pc = "done" /\ InDomain(heap, arg))
    => (ret.op = "decode" /\ ret.st = "ok" /\ ret.val = ToTree(heap, arg))

\* C1 witness: the array of a Map, a plain object and an empty array has come
\* back from 83 a2 01 85 .. 61 61 43 01 02 03 a2 61 61 85 .. 61 62 c2 41 05 80.
C1_Witness ==
  /\ pc = "done"
  /\ arg = Ref(6)
  /\ ret.op = "decode"
  /\ ret.st = "ok"
  /\ SubSeq(ret.out, 1, 4) = <<131, 162, 1, 133>>
  /\ ret.val.items[3] = Arr(<<>>)
  /\ ret.val.items[2].items[2] = BigI(FALSE, <<5>>)

-----------------------------------------------------------------------------
(* SpecTag: tagged.convert(converters) on a host of either endianness *)

TagInputs == {NOf(k) : k \in {2, 3, 64, 65, 69, 72, 258, 1000}}

TagValues ==
  {Bytes(<<>>), Bytes(<<1, 2>>), Bytes(<<1, 2, 3>>), Bytes(<<1, 2, 3, 4>>),
   Arr(<<N_(1), N_(1)>>), N_(5), Key_a}

NoConverters == [tag \in TagInputs |-> "undefined"]

ConverterTables ==
  {NoConverters,
   [NoConverters EXCEPT ![NOf(1000)] = "user_value"],
   [NoConverters EXCEPT ![NOf(2)] = "user_throws", ![NOf(65)] = "null"],
   [NoConverters EXCEPT ![NOf(258)] = "user_throws_empty",
                        ![NOf(3)] = "user_throws_null",
                        ![NOf(64)] = "user_value"]}

InitTag ==
  /\ tagged \in {Tagged(tag, value, Undefined) : tag \in TagInputs, value \in TagValues}
  /\ arg \in {[converters |-> c, isBigEndian |-> e, before |-> tagged] :
                c \in ConverterTables, e \in BOOLEAN}
  /\ heap = NoHeap
  /\ opts = DefaultOpts
  /\ stream = <<>>
  /\ detectLoops = [on |-> FALSE, has |-> {}]
  /\ ret = NoRet
  /\ bs = NoBs
  /\ pc = "convert"

\* tagged.convert(arg.converters)
Convert ==
  /\ pc = "convert"
  /\ \E r \in {convert(tagged, arg.converters, arg.isBigEndian)} :
       /\ tagged' = r.self
       /\ ret' = [op |-> "convert", st |-> IF r.thrown THEN "throw" ELSE "ok",
                  out |-> <<>>, msg |-> "", val |-> r.val]
  /\ pc' = "done"
  /\ UNCHANGED <<heap, opts, stream, detectLoops, arg, bs>>

NextTag == Convert

SpecTag == InitTag /\ [][NextTag]_vars

\* the interpreter selected for the tag threw on the value
InterpreterThrew ==
  /\ IsFunction(Selected(arg.before, arg.converters))
  /\ call(Selected(arg.before, arg.converters), arg.before, arg.isBigEndian).thrown

\* C10: when the interpreter selected for the tag throws, convert returns the
\* same Tagged, its tag and value as they were and its err the error.
C10_FailureIsolated ==
  (pc = "done" /\ ret.op = "convert" /\ InterpreterThrew)
    => /\ ret.st = "ok"
       /\ ret.val = tagged
       /\ tagged.tag = arg.before.tag
       /\ tagged.value = arg.before.value
       /\ tagged.err # Undefined

\* the entry of the caller's table for the tag
Entry == arg.converters[arg.before.tag]

\* C11: a function entry of the caller's table for the tag is used instead of
\* the built-in, and a null entry removes the built-in: the Tagged comes back
\* uninterpreted.
C11_UserTableFirst ==
  (pc = "done" /\ ret.op = "convert") =>
    /\ IsFunction(Entry) =>
         ret.val = catch(call(Entry, arg.before, arg.isBigEndian)).val
    /\ Entry = "null" => (ret.val = arg.before /\ tagged = arg.before)

-----------------------------------------------------------------------------
(* SpecOpt: one call on a new Encoder built with any of the options *)

Key_c == Str(<<99>>)

\* a function given as encodeUndefined, by what it returns
Returning(v) == [t |-> "function", returns |-> v]

\* Maps with undefined as a key and as a value, an object with an undefined
\* and a function property, values with encodeIndefinite as their hook
HeapOpt ==
  <<Obj("Uint8Array", <<>>, <<>>, <<1, 2, 3>>, "none"),
    Obj("Map", <<Undefined, Key_a>>, <<N_(1), Undefined>>, <<>>, "none"),
    Obj("Map", <<N_(1), Undefined>>, <<N_(2), Undefined>>, <<>>, "none"),
    Obj("Object", <<Key_a, Key_b, Key_c>>, <<Undefined, Func, N_(1)>>, <<>>, "none"),
    Obj("Array", <<>>, <<N_(1), Ref(4)>>, <<>>, "encodeIndefinite"),
    Obj("Object", <<Key_a>>, <<Ref(2)>>, <<>>, "encodeIndefinite"),
    Obj("Map", <<Key_a, Key_b>>, <<N_(1), Ref(8)>>, <<>>, "none"),
    A_(<<Undefined, Key_a>>),
    Obj("Map", <<Key_a, Key_b>>, <<Undefined, N_(2)>>, <<>>, "encodeIndefinite"),
    A_(<<Ref(5), Ref(9), Ref(7)>>)>>

\* encodeUndefined: unset, a byte buffer, two functions, a string, null
UndefinedPolicies ==
  {Undefined, Ref(1), Returning(N_(7)), Returning(Undefined), Key_a, Null}

OptInputs ==
  {[encodeUndefined |-> eu, disallowUndefinedKeys |-> du,
    collapseBigIntegers |-> cb, detectLoops |-> FALSE,
    omitUndefinedProperties |-> ou] :
     eu \in UndefinedPolicies, du \in BOOLEAN, cb \in BOOLEAN, ou \in BOOLEAN}

\* text with and without surrogate pairs, to be cut into chunks
ChunkStrs ==
  {Str(u) : u \in {<<>>, <<97>>, <<73, 69, 84, 70>>, <<97, 252, 27700>>,
                   <<55296, 56657>>, <<97, 55296, 56657, 98>>}}

ChunkSizes == {1, 2, 3, DEFAULT_CHUNK_SIZE}

OptRoots ==
  {Undefined, N_(500)} \cup BigInputs \cup ChunkStrs
    \cup {Ref(i) : i \in DOMAIN HeapOpt}

InitOpt ==
  /\ heap = HeapOpt
  /\ opts \in OptInputs
  /\ stream = <<>>
  /\ detectLoops = [on |-> FALSE, has |-> {}]
  /\ arg = [op |-> "", v |-> Undefined, chunkSize |-> 0]
  /\ ret = NoRet
  /\ bs = NoBs
  /\ tagged = NoTagged
  /\ pc = "opt"

\* enc.pushAny(v)
PushOne(v) ==
  /\ pc = "opt"
  /\ \E g \in {pushAny(heap, Enc, v, MaxDepth)} :
       /\ stream' = g.stream
       /\ ret' = [op |-> "pushAny", st |-> IF g.err = "" THEN "ok" ELSE "throw",
                  out |-> Flatten(g.stream), msg |-> g.err, val |-> v]
  /\ arg' = [op |-> "pushAny", v |-> v, chunkSize |-> 0]
  /\ pc' = "done"
  /\ UNCHANGED <<heap, opts, detectLoops, bs, tagged>>

\* Encoder.encodeIndefinite(enc, v, {chunkSize: c})
EncodeIndefinite(v, c) ==
  /\ pc = "opt"
  /\ \E g \in {encodeIndefinite(heap, Enc, v, [chunkSize |-> c], MaxDepth)} :
       /\ stream' = g.stream
       /\ ret' = [op |-> "encodeIndefinite",
                  st |-> IF g.err = "" THEN "ok" ELSE "throw",
                  out |-> Flatten(g.stream), msg |-> g.err, val |-> v]
  /\ arg' = [op |-> "encodeIndefinite", v |-> v, chunkSize |-> c]
  /\ pc' = "done"
  /\ UNCHANGED <<heap, opts, detectLoops, bs, tagged>>

NextOpt == \E v \in OptRoots : PushOne(v)

SpecOpt == InitOpt /\ [][NextOpt]_vars

(* SpecChunk: one call of Encoder.encodeIndefinite on a new Encoder *)

NextChunk == \E v \in OptRoots, c \in ChunkSizes : EncodeIndefinite(v, c)

SpecChunk == InitOpt /\ [][NextChunk]_vars

INVALID_KEY_MSG == "Invalid Map key: undefined"

\* v is a Map that has undefined as a key
HasUndefinedKey(H, v) ==
  /\ v.t = "object"
  /\ H[v.id].k = "Map"
  /\ \E i \in 1..Len(H[v.id].keys) : H[v.id].keys[i] = Undefined

\* C12: with disallowUndefinedKeys, encoding a Map that has undefined as a key
\* raises 'Invalid Map key: undefined' whatever the other options are; without
\* it no such error is raised.
C12_UndefinedKeyRefused ==
  (pc = "done" /\ HasUndefinedKey(heap, arg.v)) =>
    IF opts.disallowUndefinedKeys
    THEN ret.st = "throw" /\ ret.msg = INVALID_KEY_MSG
    ELSE ret.msg # INVALID_KEY_MSG

\* the entries of a Map or plain object that are to be emitted
Emitted(H, o, v) ==
  {j \in 1..Len(H[v.id].items) :
     /\ H[v.id].k = "Object" => H[v.id].items[j].t # "function"
     /\ o.omitUndefinedProperties => H[v.id].items[j].t # "undefined"}

\* the encodings of the keys and values at the indexes in keep, in order
RECURSIVE EncodePairs(_, _, _, _, _)
EncodePairs(H, o, ob, keep, j) ==
  IF j > Len(ob.items) THEN <<>>
  ELSE (IF j \in keep
        THEN encode(H, o, ob.keys[j]) \o encode(H, o, ob.items[j])
        ELSE <<>>) \o EncodePairs(H, o, ob, keep, j + 1)

IsPlainMap(H, v) ==
  /\ v.t = "object"
  /\ H[v.id].k \in {"Map", "Object"}
  /\ H[v.id].encodeCBOR = "none"

\* C13: a Map or plain object is emitted as a definite map head that counts
\* the entries emitted, followed by those entries in their order: all but the
\* function-valued properties and, with omitUndefinedProperties, all but the
\* entries whose value is undefined.
C13_OmitUndefined ==
  (pc = "done" /\ IsPlainMap(heap, arg.v) /\ ret.st = "ok") =>
    ret.out = MinimalHead(MT_MAP, NOf(Cardinality(Emitted(heap, opts, arg.v))))
                \o EncodePairs(heap, opts, heap[arg.v.id],
                               Emitted(heap, opts, arg.v), 1)

\* C13 witness: {a: undefined, b: function, c: 1} has gone out as a1 61 63 01.
C13_Witness ==
  /\ pc = "done"
  /\ arg.v = Ref(4)
  /\ opts.omitUndefinedProperties
  /\ ret.out = <<161, 97, 99, 1>>

\* how enc.pushAny(v) ends on a new Encoder with the options o
OutcomeOf(H, o, v) ==
  LET g == pushAny(H, NewEncoder(o), v, MaxDepth)
  IN  [st |-> IF g.err = "" THEN "ok" ELSE "throw", msg |-> g.err,
       out |-> Flatten(g.stream)]

Outcome == [st |-> ret.st, msg |-> ret.msg, out |-> ret.out]

End(g) ==
  [st |-> IF g.err = "" THEN "ok" ELSE "throw", msg |-> g.err,
   out |-> Flatten(g.stream)]

\* obj.encodeCBOR(gen) with Encoder.encodeIndefinite as the hook
ViaHook(H, o, v) ==
  End(encodeIndefinite(H, NewEncoder(o), v, [chunkSize |-> DEFAULT_CHUNK_SIZE],
                       MaxDepth - 1))

\* the semantic encoder registered for the constructor's name
ViaSemanticType(H, o, v) ==
  CASE H[v.id].k = "Array" ->
         End(_pushArray(H, NewEncoder(o), H[v.id], [indefinite |-> FALSE], MaxDepth - 1))
    [] H[v.id].k = "Map" ->
         End(_pushMap(H, NewEncoder(o), H[v.id], [indefinite |-> FALSE], MaxDepth - 1))
    [] H[v.id].k = "Set" -> End(_pushSet(H, NewEncoder(o), H[v.id], MaxDepth - 1))
    [] H[v.id].k = "Uint8Array" -> End(_pushTypedArray(NewEncoder(o), H[v.id].data))

\* the generic object branch: a map of the object's own properties
ViaGeneric(H, o, v) ==
  End(_pushObject(H, NewEncoder(o), v, [indefinite |-> FALSE, skipTypes |-> TRUE],
                  MaxDepth - 1))

HasHook(H, v) == H[v.id].encodeCBOR # "none"
HasSemanticType(H, v) == H[v.id].k \in semanticTypes

\* C15 as stated: for an object with a registered semantic encoder and an
\* encodeCBOR hook, the semantic encoder produces the bytes.
C15_Original ==
  (pc = "done" /\ arg.op = "pushAny" /\ arg.v.t = "object"
     /\ HasHook(heap, arg.v) /\ HasSemanticType(heap, arg.v))
    => Outcome = ViaSemanticType(heap, opts, arg.v)

\* C15 amended: the object's own encodeCBOR hook is used first if present,
\* only then the semantic encoder registered for the constructor's name, and
\* only then the generic object branch.
C15_HookFirst ==
  (pc = "done" /\ arg.op = "pushAny" /\ arg.v.t = "object") =>
    Outcome = IF HasHook(heap, arg.v) THEN ViaHook(heap, opts, arg.v)
              ELSE IF HasSemanticType(heap, arg.v)
                THEN ViaSemanticType(heap, opts, arg.v)
              ELSE ViaGeneric(heap, opts, arg.v)

\* C15 witness: the array [1, {..}] with encodeIndefinite as its hook has
\* gone out with the indefinite head 9f and a BREAK.
C15_Witness ==
  /\ pc = "done"
  /\ arg.op = "pushAny"
  /\ arg.v = Ref(5)
  /\ ret.st = "ok"
  /\ ret.out[1] = 159
  /\ ret.out[Len(ret.out)] = 255

-----------------------------------------------------------------------------
(* What encodeIndefinite emits for a string *)

\* the chunk p before the chunks of rest
ConsChunk(p, rest) == [ok |-> rest.ok, chunks |-> <<p>> \o rest.chunks]

\* bytes read as definite-length strings of major type mt with short heads:
\* their payloads, ok when bytes is nothing but such strings
RECURSIVE ChunksIn(_, _)
ChunksIn(bytes, mt) ==
  IF bytes = <<>> THEN [ok |-> TRUE, chunks |-> <<>>]
  ELSE IF \/ Head(bytes) \div 32 # mt
          \/ Head(bytes) % 32 >= 24
          \/ Len(bytes) < 1 + (Head(bytes) % 32)
    THEN [ok |-> FALSE, chunks |-> <<>>]
  ELSE ConsChunk(SubSeq(bytes, 2, 1 + (Head(bytes) % 32)),
                 ChunksIn(SubSeq(bytes, 2 + (Head(bytes) % 32), Len(bytes)), mt))

\* what lies between the first and the last byte
Middle(out) == SubSeq(out, 2, Len(out) - 1)

IsText(v) == v.t = "string"
IsBuffer(H, v) == v.t = "object" /\ H[v.id].k = "Uint8Array"

\* the code units of a text, the bytes of a buffer
UnitsOf(H, v) == IF IsText(v) THEN v.units ELSE H[v.id].data
PayloadOf(H, v) == IF IsText(v) THEN TextEncode(v.units) ELSE H[v.id].data
StringMt(v) == IF IsText(v) THEN MT_UTF8_STRING ELSE MT_BYTE_STRING

\* the code units (bytes) a chunk carries
ChunkUnits(v, chunk) == IF IsText(v) THEN utf8Decode(chunk, <<>>).units ELSE chunk

ChunksEmitted == ChunksIn(Middle(ret.out), StringMt(arg.v))

\* C16: encodeIndefinite of a string of length L with chunk size c emits the
\* indefinite head, ceil(L/c) definite chunks of the same major type, each of
\* at most c code units (bytes), together the input unchanged, then one BREAK.
C16_ChunkedString ==
  (pc = "done" /\ (IsText(arg.v) \/ IsBuffer(heap, arg.v))) =>
    /\ ret.st = "ok"
    /\ ret.out[1] = StringMt(arg.v) * 32 + NUMBYTES_INDEFINITE
    /\ ret.out[Len(ret.out)] = 255
    /\ ChunksEmitted.ok
    /\ Len(ChunksEmitted.chunks)
         = (Len(UnitsOf(heap, arg.v)) + arg.chunkSize - 1) \div arg.chunkSize
    /\ \A i \in 1..Len(ChunksEmitted.chunks) :
         Len(ChunkUnits(arg.v, ChunksEmitted.chunks[i])) <= arg.chunkSize
    /\ Flatten(ChunksEmitted.chunks) = PayloadOf(heap, arg.v)

\* the code units of the chunks, each chunk decoded on its own
UnitsEmitted ==
  Flatten([i \in 1..Len(ChunksEmitted.chunks) |->
             ChunkUnits(arg.v, ChunksEmitted.chunks[i])])

\* C17: encodeIndefinite of a text never cuts between the two code units of a
\* surrogate pair: the chunks, each read on its own, are the code points of
\* the input in order.
C17_NoSplitSurrogates ==
  (pc = "done" /\ IsText(arg.v) /\ WellFormed(arg.v.units)) =>
    (ChunksEmitted.ok /\ UnitsEmitted = arg.v.units)

-----------------------------------------------------------------------------
(* The shape of the bytes emitted.  A reading of b from index i is          *)
(* [ok, pos, breaks]: whether a well-formed item starts at i, the index     *)
(* after it, and how many BREAK bytes close items within it.                *)

Malformed == [ok |-> FALSE, pos |-> 0, breaks |-> 0]
ItemRead(pos, breaks) == [ok |-> TRUE, pos |-> pos, breaks |-> breaks]

\* the bytes of the argument after the head byte
ExtraOf(ai) ==
  CASE ai = 24 -> 1 [] ai = 25 -> 2 [] ai = 26 -> 4 [] ai = 27 -> 8
    [] OTHER -> 0

\* the argument of the head at i, for the lengths and counts met here
CountAt(b, i) ==
  IF b[i] % 32 < 24 THEN b[i] % 32
  ELSE ToInt(Norm(SubSeq(b, i + 1, i + ExtraOf(b[i] % 32))))

RECURSIVE ParseItem(_, _)
RECURSIVE ParseN(_, _, _)
RECURSIVE ParseUntilBreak(_, _)

\* the reading r, then the reading next made from where r ends
Both(r, next) ==
  IF ~r.ok \/ ~next.ok THEN Malformed
  ELSE ItemRead(next.pos, r.breaks + next.breaks)

\* n items from i
ParseN(b, i, n) ==
  IF n = 0 THEN ItemRead(i, 0)
  ELSE IF ~ParseItem(b, i).ok THEN Malformed
  ELSE Both(ParseItem(b, i), ParseN(b, ParseItem(b, i).pos, n - 1))

\* items from i up to the BREAK that closes them, the BREAK counted
ParseUntilBreak(b, i) ==
  IF i > Len(b) THEN Malformed
  ELSE IF b[i] = 255 THEN ItemRead(i + 1, 1)
  ELSE IF ~ParseItem(b, i).ok THEN Malformed
  ELSE Both(ParseItem(b, i), ParseUntilBreak(b, ParseItem(b, i).pos))

ParseItem(b, i) ==
  IF i > Len(b) THEN Malformed
  ELSE
    LET mt == b[i] \div 32
        ai == b[i] % 32
        after == i + 1 + ExtraOf(ai)
    IN  IF ai \in 28..30 \/ after > Len(b) + 1 THEN Malformed
        ELSE IF ai = NUMBYTES_INDEFINITE
          THEN IF mt \in {MT_BYTE_STRING, MT_UTF8_STRING, MT_ARRAY, MT_MAP}
               THEN ParseUntilBreak(b, i + 1)
               ELSE Malformed
        ELSE CASE mt \in {MT_POS_INT, MT_NEG_INT, MT_SIMPLE_FLOAT} -> ItemRead(after, 0)
               [] mt \in {MT_BYTE_STRING, MT_UTF8_STRING} ->
                    IF after + CountAt(b, i) > Len(b) + 1 THEN Malformed
                    ELSE ItemRead(after + CountAt(b, i), 0)
               [] mt = MT_ARRAY -> ParseN(b, after, CountAt(b, i))
               [] mt = MT_MAP -> ParseN(b, after, 2 * CountAt(b, i))
               [] mt = MT_TAG -> ParseN(b, after, 1)

\* the values with encodeIndefinite as their hook met while encoding v, each
\* counted as often as it is met
RECURSIVE HooksIn(_, _, _)
RECURSIVE HooksInAll(_, _, _)
HooksInAll(H, vs, d) ==
  IF vs = <<>> THEN 0 ELSE HooksIn(H, Head(vs), d) + HooksInAll(H, Tail(vs), d)

HooksIn(H, v, d) ==
  IF v.t # "object" \/ d = 0 THEN 0
  ELSE (IF H[v.id].encodeCBOR = "encodeIndefinite" THEN 1 ELSE 0)
         + HooksInAll(H, H[v.id].keys \o H[v.id].items, d - 1)

\* encodeUndefined is a byte buffer, spliced as it is
SplicesBytes(H, o) ==
  o.encodeUndefined.t = "object" /\ H[o.encodeUndefined.id].k = "Uint8Array"

\* the items opened with an indefinite head while the call encodes arg.v:
\* arg.v itself when the call is encodeIndefinite, and the values that have
\* encodeIndefinite as their hook
IndefiniteExpected ==
  IF arg.op = "encodeIndefinite"
  THEN 1 + (IF arg.v.t = "object"
            THEN HooksInAll(heap, heap[arg.v.id].keys \o heap[arg.v.id].items,
                            MaxDepth)
            ELSE 0)
  ELSE HooksIn(heap, arg.v, MaxDepth)

-----------------------------------------------------------------------------
(* SpecHead: parseCBORint(ai, buf) on the bytes that follow a head byte *)

\* the high and the low 32 bits of the eight-byte arguments looked at
HighWords ==
  {<<0, 0, 0, 0>>, <<0, 0, 0, 1>>, <<0, 31, 255, 254>>, <<0, 31, 255, 255>>,
   <<0, 32, 0, 0>>, <<0, 32, 0, 1>>, <<128, 0, 0, 0>>, <<255, 255, 255, 255>>}

LowWords ==
  {<<0, 0, 0, 0>>, <<0, 0, 0, 1>>, <<128, 0, 0, 0>>, <<255, 255, 255, 254>>,
   <<255, 255, 255, 255>>}

HeadInputs ==
  {[ai |-> NUMBYTES_EIGHT, buf |-> f \o g] : f \in HighWords, g \in LowWords}
    \cup {[ai |-> NUMBYTES_FOUR, buf |-> g] : g \in LowWords}
    \cup {[ai |-> NUMBYTES_TWO, buf |-> b] : b \in {<<0, 0>>, <<1, 0>>, <<255, 255>>}}
    \cup {[ai |-> NUMBYTES_ONE, buf |-> b] : b \in {<<0>>, <<24>>, <<255>>}}

InitHead ==
  /\ arg \in HeadInputs
  /\ bs = BufferStream(arg.buf)
  /\ heap = NoHeap
  /\ opts = DefaultOpts
  /\ stream = <<>>
  /\ detectLoops = [on |-> FALSE, has |-> {}]
  /\ ret = NoRet
  /\ tagged = NoTagged
  /\ pc = "head"

\* parseCBORint(ai, buf)
ParseCBORint ==
  /\ pc = "head"
  /\ ret' = [op |-> "parseCBORint", st |-> "ok", out |-> <<>>, msg |-> "",
             val |-> parseCBORint(arg.ai, arg.buf)]
  /\ pc' = "done"
  /\ UNCHANGED <<heap, opts, stream, detectLoops, arg, bs, tagged>>

NextHead == ParseCBORint

SpecHead == InitHead /\ [][NextHead]_vars

\* C19: an eight-byte argument of at most 2^53-1 is read as the number of
\* that value, one of 2^53 or more as the BigInt of that value.
C19_SafeIntegerSwitch ==
  (pc = "done" /\ arg.ai = NUMBYTES_EIGHT) =>
    ret.val = IF NLe(Norm(arg.buf), MAX_SAFE_INTEGER)
              THEN Num(FALSE, Norm(arg.buf))
              ELSE BigI(FALSE, Norm(arg.buf))

\* C19 witness: 00 20 00 00 00 00 00 00 has been read as the BigInt 2^53.
C19_Witness ==
  /\ pc = "done"
  /\ arg.ai = NUMBYTES_EIGHT
  /\ arg.buf = <<0, 32, 0, 0, 0, 0, 0, 0>>
  /\ ret.val = BigI(FALSE, P53)

-----------------------------------------------------------------------------
(* Arbitrary-precision integers, under SpecOpt *)

\* the magnitude that is written for the BigInt v: -v-1 when v is negative
MagnitudeOf(v) == IF v.neg THEN NDec(v.mag) ELSE v.mag

\* the magnitude as the bytes of an even number of hexadecimal digits
MagnitudeBytes(v) == IF MagnitudeOf(v) = <<>> THEN <<0>> ELSE MagnitudeOf(v)

BigintMt(v) == IF v.neg THEN MT_NEG_INT ELSE MT_POS_INT

BigintTag(v) == IF v.neg THEN TAG_NEG_BIGINT ELSE TAG_POS_BIGINT

Collapsed(v) == opts.collapseBigIntegers /\ NLe(MagnitudeOf(v), MAXINT64)

\* C20: a BigInt is written untagged when collapseBigIntegers is set and the
\* magnitude fits 64 bits (minimal width up to 2^32-1, eight bytes above),
\* and as tag 2 or 3 on the byte string of the magnitude otherwise.
C20_BigintEncoding ==
  (pc = "done" /\ arg.op = "pushAny" /\ arg.v \in BigInputs) =>
    /\ ret.st = "ok"
    /\ ret.out =
         IF Collapsed(arg.v)
         THEN IF NLe(MagnitudeOf(arg.v), MAXINT32)
              THEN MinimalHead(BigintMt(arg.v), MagnitudeOf(arg.v))
              ELSE <<BigintMt(arg.v) * 32 + NUMBYTES_EIGHT>>
                     \o PadTo(MagnitudeOf(arg.v), 8)
         ELSE MinimalHead(MT_TAG, NOf(BigintTag(arg.v)))
                \o MinimalHead(MT_BYTE_STRING, NOf(Len(MagnitudeBytes(arg.v))))
                \o MagnitudeBytes(arg.v)

\* C20 witness: -2^64 has been written with collapseBigIntegers as
\* 3b ff ff ff ff ff ff ff ff.
C20_Witness ==
  /\ pc = "done"
  /\ arg.op = "pushAny"
  /\ arg.v = BigI(TRUE, P64)
  /\ opts.collapseBigIntegers
  /\ ret.out = <<59>> \o MAXINT64

-----------------------------------------------------------------------------
(* SpecB64: tagged.convert() on the base64url and base64 tags *)

\* A, B, E, Q, '=', '*', '+', '-'
B64Units == {65, 66, 69, 81, EQUALS, 42, 43, 45}

MaxText == 4

RECURSIVE Texts(_)
Texts(n) ==
  IF n = 0 THEN {<<>>}
  ELSE Texts(n - 1)
         \cup {Append(u, c) : u \in {w \in Texts(n - 1) : Len(w) = n - 1},
                              c \in B64Units}

\* every text of at most MaxText units, and some of two blocks
B64Values ==
  {Str(u) : u \in Texts(MaxText)
              \cup {<<65, 65, 65, 65>> \o w :
                      w \in {<<65, 65, 69, 61>>, <<65, 66, 61, 61>>,
                             <<65, 81, 61, 61>>, <<65, 65, 65>>, <<61, 61, 61, 61>>}}}

InitB64 ==
  /\ tagged \in {Tagged(NOf(tag), value, Undefined) :
                   tag \in {33, 34}, value \in B64Values \cup {N_(5)}}
  /\ arg = [converters |-> NoConverters, isBigEndian |-> FALSE, before |-> tagged]
  /\ heap = NoHeap
  /\ opts = DefaultOpts
  /\ stream = <<>>
  /\ detectLoops = [on |-> FALSE, has |-> {}]
  /\ ret = NoRet
  /\ bs = NoBs
  /\ pc = "convert"

NextB64 == Convert

SpecB64 == InitB64 /\ [][NextB64]_vars

\* the six bits a character of the base64 alphabet stands for
Sextet(c) ==
  CASE c \in 65..90 -> c - 65
    [] c \in 97..122 -> c - 71
    [] c \in 48..57 -> c + 4
    [] c = 43 -> 62
    [] OTHER -> 63

\* well-formed base64: characters of the alphabet, then at most two '=', a
\* multiple of four in all, and the bits of the last character that belong
\* to no byte zero
WellFormedBase64(u) ==
  LET p == TrailingEquals(u)
      n == Len(u) - p
  IN  /\ p <= 2
      /\ n > 0
      /\ \A i \in 1..n : u[i] \in Base64Class
      /\ Len(u) % 4 = 0
      /\ p = 1 => Sextet(u[n]) % 4 = 0
      /\ p = 2 => Sextet(u[n]) % 16 = 0

\* C21: convert on tag 34 leaves err unset exactly for the texts that are
\* well-formed base64.
C21_Base64Accepted ==
  (pc = "done" /\ arg.before.tag = NOf(34) /\ arg.before.value.t = "string"
     /\ arg.before.value.units # <<>>)
    => (tagged.err = Undefined <=> WellFormedBase64(arg.before.value.units))

-----------------------------------------------------------------------------
(* SpecFloat: pushAny of a number, given or read from a half by parseHalf *)

\* 1.5, -4.1, 0.1, 1.1, 0.5, 5.5, 1 + 2^-23, 1 + 2^-24, 2^-24, 2^-126,
\* 2^-127, 2^-149, 3 * 2^-149, 2^-150, 2^-1074
Fractions ==
  {Flt(b) : b \in {<<63, 248, 0, 0, 0, 0, 0, 0>>,
                   <<192, 16, 102, 102, 102, 102, 102, 102>>,
                   <<63, 185, 153, 153, 153, 153, 153, 154>>,
                   <<63, 241, 153, 153, 153, 153, 153, 154>>,
                   <<63, 224, 0, 0, 0, 0, 0, 0>>,
                   <<64, 22, 0, 0, 0, 0, 0, 0>>,
                   <<63, 240, 0, 0, 32, 0, 0, 0>>,
                   <<63, 240, 0, 0, 16, 0, 0, 0>>,
                   <<62, 112, 0, 0, 0, 0, 0, 0>>,
                   <<56, 16, 0, 0, 0, 0, 0, 0>>,
                   <<56, 0, 0, 0, 0, 0, 0, 0>>,
                   <<54, 160, 0, 0, 0, 0, 0, 0>>,
                   <<54, 184, 0, 0, 0, 0, 0, 0>>,
                   <<54, 144, 0, 0, 0, 0, 0, 0>>,
                   <<0, 0, 0, 0, 0, 0, 0, 1>>}}

\* NaN, the infinities, the zeros, 1, -1, 100000, 65504, 2^53
NumberInputs ==
  Fractions
    \cup {NaN, Infinity(FALSE), Infinity(TRUE), Num(TRUE, <<>>), Num(FALSE, <<>>),
          Num(FALSE, <<1>>), Num(TRUE, <<1>>), Num(FALSE, <<1, 134, 160>>),
          Num(FALSE, <<255, 224>>), Num(FALSE, P53)}

HalfInputs ==
  {<<hi, lo>> : hi \in {0, 1, 4, 60, 62, 123, 124, 126, 128, 132, 196, 252, 254},
                lo \in {0, 1, 255}}

InitFloat ==
  /\ arg \in {[kind |-> "number", v |-> v, buf |-> <<>>] : v \in NumberInputs}
              \cup {[kind |-> "half", v |-> Undefined, buf |-> b] : b \in HalfInputs}
  /\ heap = NoHeap
  /\ opts = DefaultOpts
  /\ stream = <<>>
  /\ detectLoops = [on |-> FALSE, has |-> {}]
  /\ ret = NoRet
  /\ tagged = NoTagged
  /\ bs = NoBs
  /\ pc = "float"

\* parseHalf(arg.buf)
ParseHalf ==
  /\ pc = "float"
  /\ arg.kind = "half"
  /\ ret' = [op |-> "parseHalf", st |-> "ok", out |-> <<>>, msg |-> "",
             val |-> parseHalf(arg.buf)]
  /\ pc' = "parsed"
  /\ UNCHANGED <<heap, opts, stream, detectLoops, arg, bs, tagged>>

\* new Encoder().pushAny(v) for the number given or the one read
PushFloat ==
  /\ pc = IF arg.kind = "half" THEN "parsed" ELSE "float"
  /\ \E v \in {IF arg.kind = "half" THEN ret.val ELSE arg.v} :
       \E g \in {pushAny(heap, Enc, v, MaxDepth)} :
         /\ stream' = g.stream
         /\ ret' = [op |-> "pushAny", st |-> IF g.err = "" THEN "ok" ELSE "throw",
                    out |-> Flatten(g.stream), msg |-> g.err, val |-> v]
  /\ pc' = "done"
  /\ UNCHANGED <<heap, opts, detectLoops, arg, bs, tagged>>

NextFloat == ParseHalf \/ PushFloat

SpecFloat == InitFloat /\ [][NextFloat]_vars

HalfSpecials == {NaN, Infinity(FALSE), Infinity(TRUE), Num(TRUE, <<>>)}

\* the halves of +Infinity, -Infinity, -0 and NaN
HalfSpecialBytes == {<<124, 0>>, <<252, 0>>, <<128, 0>>, <<126, 0>>}

-----------------------------------------------------------------------------
(* SpecBS: read and unshift calls on one BufferStream *)

MaxBytes == 3
MaxRead == 4

RECURSIVE ByteSeqs(_)
ByteSeqs(n) ==
  IF n = 0 THEN {<<>>}
  ELSE ByteSeqs(n - 1)
         \cup {Append(u, c) : u \in {w \in ByteSeqs(n - 1) : Len(w) = n - 1},
                              c \in {0, 255}}

InitBS ==
  /\ arg \in {[input |-> u] : u \in ByteSeqs(MaxBytes)}
  /\ bs = BufferStream(arg.input)
  /\ heap = NoHeap
  /\ opts = DefaultOpts
  /\ stream = <<>>
  /\ detectLoops = [on |-> FALSE, has |-> {}]
  /\ ret = NoRet
  /\ tagged = NoTagged
  /\ pc = "stream"

\* what a call was given and found: n the count or the length of what is
\* unshifted, before the index before the call
Call(n, before, null, view) ==
  [n |-> n, before |-> before, null |-> null, view |-> view]

\* bs.read(n); a negative length of the view is a RangeError of Uint8Array
Read(n) ==
  /\ pc = "stream"
  /\ IF n < 0
     THEN /\ bs' = bs
          /\ ret' = [op |-> "read", st |-> "throw", out |-> <<>>,
                     msg |-> "Invalid typed array length", 
                     val |-> Call(n, bs.index, FALSE, <<>>)]
     ELSE \E r \in {read(bs, NOf(n))} :
            /\ bs' = r.b
            /\ ret' = [op |-> "read", st |-> "ok", out |-> <<>>, msg |-> "",
                       val |-> Call(n, bs.index, r.null, r.view)]
  /\ UNCHANGED <<heap, opts, stream, detectLoops, arg, tagged, pc>>

\* bs.unshift(b) for a b of the length n
Unshift(n) ==
  /\ pc = "stream"
  /\ \E r \in {unshift(bs, Zeros(n))} :
       /\ bs' = r.b
       /\ ret' = [op |-> "unshift", st |-> IF r.err = "" THEN "ok" ELSE "throw",
                  out |-> <<>>, msg |-> r.err,
                  val |-> Call(n, bs.index, FALSE, <<>>)]
  /\ UNCHANGED <<heap, opts, stream, detectLoops, arg, tagged, pc>>

NextBS ==
  \/ \E n \in (-1)..MaxRead : Read(n)
  \/ \E n \in 0..MaxRead : Unshift(n)

SpecBS == InitBS /\ [][NextBS]_vars

Min(a, b) == IF a <= b THEN a ELSE b

\* the bytes that were left before the call
Remaining == Len(bs.bytes) - ret.val.before

\* the index stays inside the input, and the input is as it was given
IndexInside ==
  /\ bs.bytes = arg.input
  /\ bs.index \in 0..Len(bs.bytes)

\* unshift moves the index back by the length, or raises and moves nothing
UnshiftRewinds ==
  ret.op = "unshift" =>
    IF ret.val.n > ret.val.before
    THEN ret.st = "throw" /\ ret.msg = "Cannot rewind that far."
           /\ bs.index = ret.val.before
    ELSE ret.st = "ok" /\ bs.index = ret.val.before - ret.val.n

\* read gave the bytes from the old index on and moved the index past them
ViewGiven(k) ==
  /\ ~ret.val.null
  /\ ret.val.view = SubSeq(bs.bytes, ret.val.before + 1, ret.val.before + k)
  /\ bs.index = ret.val.before + k

NothingRead == ret.val.null /\ bs.index = ret.val.before

\* the statement as written: null only when no bytes remain
C23_Original ==
  pc = "stream" =>
    /\ IndexInside
    /\ UnshiftRewinds
    /\ (ret.op = "read" /\ ret.val.n >= 0) =>
         IF Remaining = 0 THEN NothingRead
         ELSE ViewGiven(Min(ret.val.n, Remaining))

\* C23: the index stays inside the input; read(n) for n >= 0 gives the
\* min(n, remaining) bytes at the old index and moves past them, and gives
\* null and moves nothing when that count is 0; unshift(b) moves back by
\* b.length, or raises 'Cannot rewind that far.' and moves nothing.
C23_ReadAndUnshift ==
  pc = "stream" =>
    /\ IndexInside
    /\ UnshiftRewinds
    /\ (ret.op = "read" /\ ret.val.n >= 0) =>
         IF Min(ret.val.n, Remaining) = 0 THEN NothingRead
         ELSE ViewGiven(Min(ret.val.n, Remaining))
    /\ (ret.op = "read" /\ ret.val.n < 0) =>
         (ret.st = "throw" /\ bs.index = ret.val.before)

\* C23 witness: read(0) at index 1 of three bytes gave null and moved nothing.
C23_Witness ==
  /\ ret.op = "read"
  /\ ret.val.n = 0
  /\ Remaining = 2
  /\ ret.val.null
  /\ bs.index = 1

-----------------------------------------------------------------------------
(* The loop detector, under SpecEnc *)

\* the step is enc.pushAny(v) for the v in ret'
PushAnyStep == ret'.op = "pushAny" /\ Len(arg'.cur) = Len(arg.cur) + 1

HookedRoot(H, v) ==
  /\ v.t = "object"
  /\ H[v.id].encodeCBOR = "encodeIndefinite"
  /\ ~HasCycle(H, v)

RemoveStep == ret'.op = "removeLoopDetectors"

\* the call before this one was removeLoopDetectors
JustReset == ret.op = "removeLoopDetectors"

\* C25: removeLoopDetectors returns false and changes nothing when
\* detectLoops is off, and else empties the detector and returns true; the
\* pushAny after it of a value without a cycle raises no 'Loop detected'.
C25_ResetDetector ==
  [][/\ RemoveStep =>
          /\ stream' = stream
          /\ IF detectLoops.on
             THEN ret'.st = "true" /\ detectLoops' = [on |-> TRUE, has |-> {}]
             ELSE ret'.st = "false" /\ detectLoops' = detectLoops
     /\ (PushAnyStep /\ JustReset /\ ~HasCycle(heap, ret'.val))
          => ret'.msg # LOOP_MSG]_vars

\* the bytes of v from a new Encoder that detects no loops
Undetected(v) == encode(heap, [opts EXCEPT !.detectLoops = FALSE], v)

\* C26: on a detector that holds nothing, pushAny of a value without a cycle
\* raises no 'Loop detected', also when the value holds the same container
\* twice, and writes the bytes it writes with detectLoops off.
C26_SharedChildAccepted ==
  [][(PushAnyStep /\ detectLoops.on /\ detectLoops.has = {}
        /\ ~HasCycle(heap, ret'.val))
       => /\ ret'.msg # LOOP_MSG
          /\ ret'.st = "ok" =>
               concatBuffers(stream') = concatBuffers(stream) \o Undetected(ret'.val)]_vars

-----------------------------------------------------------------------------
(* Termination, under SpecOpt and SpecChunk *)

\* C27: pushAny(undefined) comes to an end whatever encodeUndefined is: the
\* nested pushAny calls do not use up the call stack.
C27_UndefinedTerminates ==
  (pc = "done" /\ arg.op = "pushAny" /\ arg.v = Undefined)
    => ret.msg # OVERFLOW_MSG

\* SpecHang: Encoder.encodeIndefinite of a string or a buffer with a
\* chunkSize of any sign
AnyChunkSizes == {-2, -1, 0, 1}

HangRoots == ChunkStrs \cup {Ref(1)}

NextHang == \E v \in HangRoots, c \in AnyChunkSizes : EncodeIndefinite(v, c)

SpecHang == InitOpt /\ [][NextHang]_vars

\* C28: encodeIndefinite of a string or a buffer comes to an end whatever
\* chunkSize is: the loop over the chunks ends.
C28_ChunkLoopEnds ==
  (pc = "done" /\ arg.op = "encodeIndefinite"
     /\ (IsText(arg.v) \/ IsBuffer(heap, arg.v)))
    => ret.msg # HANG_MSG

-----------------------------------------------------------------------------
(* The bytes under a Tagged, under SpecTag.  The value of a byte string is  *)
(* the view read gave out: its bytes are bytes of the input.                *)

\* C29: convert leaves the bytes under the value as they were, also for a
\* typed array tag whose byte order is not the host's and when the
\* interpreter throws part-way.
C29_InputUnchanged ==
  (pc = "done" /\ ret.op = "convert" /\ arg.before.value.t = "bytes")
    => tagged.value = arg.before.value

-----------------------------------------------------------------------------
(* The output buffer, under SpecEnc *)

\* the step is enc.flush()
FlushStep == ret'.op = "flush"

\* the call before this one gave out the buffer
JustFlushed == ret.op = "flush" \/ (ret.op = "_encodeAll" /\ ret.st = "ok")

\* C30: pushAny only adds bytes to the end of the buffer; flush returns the
\* buffer as it is and leaves it empty, so a flush right after a flush
\* returns no bytes.
C30_FlushDrains ==
  [][/\ PushAnyStep => IsPrefix(concatBuffers(stream), concatBuffers(stream'))
     /\ FlushStep => (ret'.out = concatBuffers(stream) /\ stream' = <<>>)
     /\ (FlushStep /\ JustFlushed) => ret'.out = <<>>]_vars

\* C30 witness: flush after pushAny(500) and pushAny("a") has returned
\* 19 01 f4 61 61 and the buffer is empty.
C30_Witness ==
  /\ ret.op = "flush"
  /\ Len(arg.prev) = 2
  /\ ret.out = <<25, 1, 244, 97, 97>>
  /\ stream = <<>>

====
